---- MODULE Spec2Model ----
(***************************************************************************)
(* A model of sql-whisperer: the lexical query validator (QueryValidator), *)
(* the three database adapters (MySQLClient, SQLiteClient,                 *)
(* PostgreSQLClient over BaseDatabaseClient) and the MCP server's tool     *)
(* handlers (MCPServer).                                                   *)
(*                                                                         *)
(* Query texts are TLA+ strings; a character is a string of length one.    *)
(***************************************************************************)
EXTENDS Integers, Sequences, FiniteSets, TLC

VARIABLES
    vInput,     \* the JavaScript value handed to QueryValidator.validate
    vOutcome,   \* what that call did: nothing yet, returned a verdict, threw
    adapters,   \* the database clients constructed so far: kind, connected, pool or db
    handles,    \* the pools (MySQL, PostgreSQL) and database handles (SQLite) created
    tasks,      \* the asynchronous calls that are waiting for a promise to settle
    qInput,     \* the request handed to client.query, and what the engine does with it
    last,       \* the call that completed last: its arguments, outcome and requests
    connections, \* the connections of the adapter's pool: checked out or not, session timeout
    client      \* MCPServer.client: the adapter the server references, 0 for null

validatorVars == <<vInput, vOutcome>>
adapterVars == <<adapters, handles, tasks, last>>
queryVars == <<qInput, connections>>
serverVars == <<client>>

vars == <<vInput, vOutcome, adapters, handles, tasks, qInput, last, connections, client>>

-----------------------------------------------------------------------------
(* JavaScript strings.                                                     *)

Char(s, i) == SubSeq(s, i, i)

LowerAlphabet == "abcdefghijklmnopqrstuvwxyz"
UpperAlphabet == "ABCDEFGHIJKLMNOPQRSTUVWXYZ"
DigitAlphabet == "0123456789"

LowerLetters == {Char(LowerAlphabet, i) : i \in 1..Len(LowerAlphabet)}
UpperLetters == {Char(UpperAlphabet, i) : i \in 1..Len(UpperAlphabet)}
Digits == {Char(DigitAlphabet, i) : i \in 1..Len(DigitAlphabet)}

\* \s of a regular expression, and what String.prototype.trim removes
WhiteSpace == {" ", "\t", "\n", "\r"}

\* \w of a regular expression
WordChars == LowerLetters \cup UpperLetters \cup Digits \cup {"_"}

UpperChar(c) ==
    IF c \in LowerLetters
    THEN Char(UpperAlphabet, CHOOSE i \in 1..Len(LowerAlphabet) : Char(LowerAlphabet, i) = c)
    ELSE c

\* the characters lo..hi of s in upper case (halving keeps the recursion shallow)
RECURSIVE UpperRange(_, _, _)
UpperRange(s, lo, hi) ==
    IF lo > hi THEN ""
    ELSE IF lo = hi THEN UpperChar(Char(s, lo))
    ELSE LET mid == (lo + hi) \div 2
         IN  UpperRange(s, lo, mid) \o UpperRange(s, mid + 1, hi)

\* String.prototype.toUpperCase
toUpperCase(s) == UpperRange(s, 1, Len(s))

\* String.prototype.trim
trim(s) ==
    LET solid == {i \in 1..Len(s) : Char(s, i) \notin WhiteSpace}
    IN  IF solid = {} THEN ""
        ELSE SubSeq(s, CHOOSE i \in solid : \A j \in solid : i <= j,
                       CHOOSE i \in solid : \A j \in solid : i >= j)

LitAt(s, i, lit) ==
    /\ i + Len(lit) - 1 <= Len(s)
    /\ SubSeq(s, i, i + Len(lit) - 1) = lit

\* String.prototype.includes
includes(s, sub) == \E i \in 1..(Len(s) + 1) : LitAt(s, i, sub)

\* String.prototype.startsWith
startsWith(s, prefix) == LitAt(s, 1, prefix)

-----------------------------------------------------------------------------
(* Regular expressions, as far as the validator's patterns need them.  A   *)
(* pattern is a sequence of elements; MatchEnds gives every position at    *)
(* which a backtracking match of the elements from k on, begun at position *)
(* i, can end.  Patterns carry the i flag: they are written in upper case  *)
(* and applied to the upper-cased text.                                    *)

Lit(x) == [kind |-> "lit", arg |-> x, alts |-> <<>>]
WB == [kind |-> "wb", arg |-> "", alts |-> <<>>]
End == [kind |-> "end", arg |-> "", alts |-> <<>>]
Plus(cls) == [kind |-> "plus", arg |-> cls, alts |-> <<>>]
Star(cls) == [kind |-> "star", arg |-> cls, alts |-> <<>>]
Opt(x) == [kind |-> "opt", arg |-> x, alts |-> <<>>]
Alt(seqs) == [kind |-> "alt", arg |-> "", alts |-> seqs]

InClass(c, cls) ==
    CASE cls = "s" -> c \in WhiteSpace
      [] cls = "w" -> c \in WordChars
      [] cls = "d" -> c \in Digits
      [] cls = "az" -> c \in LowerLetters \cup UpperLetters
      [] cls = "any" -> c # "\n" /\ c # "\r"
      [] cls = "wcs" -> c \in WordChars \cup WhiteSpace \cup {","}
      [] cls = "wdot" -> c \in WordChars \cup {"."}

IsWordAt(s, i) == i >= 1 /\ i <= Len(s) /\ Char(s, i) \in WordChars

\* \b before position i
WordBoundary(s, i) == IsWordAt(s, i - 1) # IsWordAt(s, i)

\* the ends of the runs of class cls that begin at i and have at least min characters
RunEnds(s, i, cls, min) ==
    {j \in (i + min)..(Len(s) + 1) : \A m \in i..(j - 1) : InClass(Char(s, m), cls)}

RECURSIVE MatchEnds(_, _, _, _)
MatchEnds(re, k, s, i) ==
    IF k > Len(re) THEN {i}
    ELSE LET e == re[k]
             rest(j) == MatchEnds(re, k + 1, s, j)
         IN  CASE e.kind = "lit" ->
                    IF LitAt(s, i, e.arg) THEN rest(i + Len(e.arg)) ELSE {}
               [] e.kind = "wb" -> IF WordBoundary(s, i) THEN rest(i) ELSE {}
               [] e.kind = "end" -> IF i = Len(s) + 1 THEN rest(i) ELSE {}
               [] e.kind = "plus" -> UNION {rest(j) : j \in RunEnds(s, i, e.arg, 1)}
               [] e.kind = "star" -> UNION {rest(j) : j \in RunEnds(s, i, e.arg, 0)}
               [] e.kind = "opt" ->
                    rest(i) \cup (IF LitAt(s, i, e.arg) THEN rest(i + Len(e.arg)) ELSE {})
               [] e.kind = "alt" ->
                    UNION {UNION {rest(j) : j \in MatchEnds(e.alts[a], 1, s, i)} :
                           a \in DOMAIN e.alts}

MatchStarts(re, s) == {i \in 1..(Len(s) + 1) : MatchEnds(re, 1, s, i) # {}}

\* RegExp.prototype.test of a pattern without the g flag
RegexTest(re, s) == MatchStarts(re, s) # {}

SetMax(S) == CHOOSE x \in S : \A y \in S : x >= y
SetMin(S) == CHOOSE x \in S : \A y \in S : x <= y

\* the successive matches of a pattern with the g flag (String.prototype.match,
\* matchAll): leftmost first, each begun where the one before ended
RECURSIVE CountMatchesFrom(_, _, _)
CountMatchesFrom(re, s, from) ==
    LET starts == {i \in MatchStarts(re, s) : i >= from}
    IN  IF starts = {} THEN 0
        ELSE LET i == SetMin(starts)
                 e == SetMax(MatchEnds(re, 1, s, i))
             IN  1 + CountMatchesFrom(re, s, IF e > i THEN e ELSE i + 1)

CountMatches(re, s) == CountMatchesFrom(re, s, 1)

-----------------------------------------------------------------------------
(* QueryValidator.                                                         *)

CriticalFinding(code, message, suggestion) ==
    [code |-> code, message |-> message, severity |-> "critical", suggestion |-> suggestion]

WarningFinding(code, message, suggestion) ==
    [code |-> code, message |-> message, severity |-> "warning", suggestion |-> suggestion]

InfoFinding(code, message, suggestion) ==
    [code |-> code, message |-> message, severity |-> "info", suggestion |-> suggestion]

detectQueryType(query) ==
    LET normalized == toUpperCase(trim(query))
    IN  CASE startsWith(normalized, "SELECT") -> "SELECT"
          [] startsWith(normalized, "INSERT") -> "INSERT"
          [] startsWith(normalized, "UPDATE") -> "UPDATE"
          [] startsWith(normalized, "DELETE") -> "DELETE"
          [] \/ startsWith(normalized, "CREATE")
             \/ startsWith(normalized, "ALTER")
             \/ startsWith(normalized, "DROP")
             \/ startsWith(normalized, "TRUNCATE") -> "DDL"
          [] \/ startsWith(normalized, "BEGIN")
             \/ startsWith(normalized, "COMMIT")
             \/ startsWith(normalized, "ROLLBACK") -> "TRANSACTION"
          [] OTHER -> "OTHER"

isMutationQueryWithoutInsert(queryType) == queryType \in {"UPDATE", "DELETE", "DDL"}

isMutationQuery(queryType) == queryType \in {"INSERT", "UPDATE", "DELETE", "DDL"}

dangerousPatterns ==
    << [name |-> "DROP TABLE",
        pattern |-> <<WB, Lit("DROP"), Plus("s"), Lit("TABLE"), WB>>],
       [name |-> "DROP DATABASE",
        pattern |-> <<WB, Lit("DROP"), Plus("s"), Lit("DATABASE"), WB>>],
       [name |-> "TRUNCATE",
        pattern |-> <<WB, Lit("TRUNCATE"), WB>>],
       [name |-> "DELETE ALL ROWS",
        pattern |-> <<WB, Lit("DELETE"), Plus("s"), Lit("FROM"), Plus("s"), Plus("w"),
                      Star("s"), Opt(";"), Star("s"), End>>],
       [name |-> "ALTER TABLE",
        pattern |-> <<WB, Lit("ALTER"), Plus("s"), Lit("TABLE"), WB>>],
       [name |-> "DROP COLUMN",
        pattern |-> <<WB, Lit("DROP"), Plus("s"), Lit("COLUMN"), WB>>],
       [name |-> "EXECUTE",
        pattern |-> <<Alt(<< <<WB, Lit("EXEC"), WB>>, <<WB, Lit("EXECUTE"), WB>> >>)>>],
       [name |-> "SQL INJECTION (DROP)",
        pattern |-> <<Lit(";"), Star("s"), Lit("DROP"), WB>>],
       [name |-> "SQL INJECTION (DELETE)",
        pattern |-> <<Lit(";"), Star("s"), Lit("DELETE"), WB>>] >>

detectDangerousOperationsFirstOnly(query) ==
    LET hit(p) == RegexTest(p.pattern, toUpperCase(query))
        found == SelectSeq(dangerousPatterns, hit)
    IN  IF found = <<>> THEN <<>> ELSE <<found[1].name>>

\* the names of the catalog's patterns that match, in catalog order
detectDangerousOperations(query) ==
    LET hit(p) == RegexTest(p.pattern, toUpperCase(query))
        found == SelectSeq(dangerousPatterns, hit)
    IN  [k \in 1..Len(found) |-> found[k].name]

injectionPatterns ==
    << [message |-> "OR 1=1 pattern detected",
        pattern |-> <<Lit("'"), Star("s"), Lit("OR"), Plus("s"), Opt("'"), Plus("d"),
                      Opt("'"), Star("s"), Lit("="), Star("s"), Opt("'"), Plus("d"),
                      Opt("'")>>],
       [message |-> "OR 'x'='x' pattern detected",
        pattern |-> <<Lit("'"), Star("s"), Lit("OR"), Plus("s"), Opt("'"), Plus("az"),
                      Opt("'"), Star("s"), Lit("="), Star("s"), Opt("'"), Plus("az"),
                      Opt("'")>>],
       [message |-> "SQL comment injection pattern detected",
        pattern |-> <<Lit("'"), Star("s"), Lit(";"), Star("any"), Lit("--")>>],
       [message |-> "UNION SELECT pattern detected",
        pattern |-> <<Lit("UNION"), Plus("s"), Lit("SELECT")>>],
       [message |-> "Parentheses OR pattern detected",
        pattern |-> <<Lit("'"), Star("s"), Lit(")"), Star("s"), Lit("OR"), Star("s"),
                      Lit("(")>>] >>

detectInjectionPatterns(query) ==
    LET hit(p) == RegexTest(p.pattern, toUpperCase(query))
        found == SelectSeq(injectionPatterns, hit)
    IN  [k \in 1..Len(found) |->
            WarningFinding("POTENTIAL_INJECTION", found[k].message,
                           "Use parameterized queries to prevent SQL injection.")]

fromClauseEnd ==
    Alt(<< <<Lit("WHERE")>>, <<Lit("GROUP")>>, <<Lit("ORDER")>>, <<Lit("LIMIT")>>, <<End>> >>)

fromClausePattern == <<Lit("FROM"), Plus("s"), Plus("wcs"), fromClauseEnd>>

\* what the group of /FROM\s+([\w,\s]+)(?:WHERE|GROUP|ORDER|LIMIT|$)/ captures in the
\* leftmost match: both quantifiers are greedy, the first has priority
fromClauseCapture(query) ==
    LET i == SetMin(MatchStarts(fromClausePattern, query))
        ends(w) == {j \in RunEnds(query, w, "wcs", 1) :
                        MatchEnds(<<fromClauseEnd>>, 1, query, j) # {}}
        w == SetMax({x \in RunEnds(query, i + 4, "s", 1) : ends(x) # {}})
    IN  SubSeq(query, w, SetMax(ends(w)) - 1)

\* captured.split(',').length
splitCount(s) == 1 + Cardinality({i \in 1..Len(s) : Char(s, i) = ","})

hasCartesianProduct(query) ==
    IF MatchStarts(fromClausePattern, query) = {} THEN FALSE
    ELSE splitCount(fromClauseCapture(query)) > 1 /\ ~includes(query, "JOIN")

expensivePatterns ==
    << [name |-> "LIKE with leading wildcard", minMatches |-> 0,
        pattern |-> <<WB, Lit("LIKE"), Plus("s"), Lit("'%"), Star("any"), Lit("%'")>>],
       [name |-> "NOT IN subquery", minMatches |-> 0,
        pattern |-> <<WB, Lit("NOT"), Plus("s"), Lit("IN"), Star("s"), Lit("(")>>],
       [name |-> "Multiple OR conditions", minMatches |-> 3,
        pattern |-> <<WB, Lit("OR"), WB>>],
       [name |-> "UNION operation", minMatches |-> 0,
        pattern |-> <<WB, Lit("UNION"), WB>>],
       [name |-> "DISTINCT operation", minMatches |-> 0,
        pattern |-> <<WB, Lit("DISTINCT"), WB>>],
       [name |-> "Function on column", minMatches |-> 2,
        pattern |-> <<WB, Alt(<< <<Lit("SUBSTRING")>>, <<Lit("LOWER")>>, <<Lit("UPPER")>>,
                                 <<Lit("CONCAT")>> >>), Star("s"), Lit("(")>>] >>

detectExpensiveOperations(query) ==
    LET hit(p) == LET n == CountMatches(p.pattern, query)
                  IN  n > 0 /\ (p.minMatches = 0 \/ n >= p.minMatches)
        found == SelectSeq(expensivePatterns, hit)
    IN  [k \in 1..Len(found) |-> found[k].name]

complexityIndicators ==
    << [weight |-> 2, pattern |-> <<WB, Lit("JOIN"), WB>>],
       [weight |-> 3, pattern |-> <<Alt(<< <<WB, Lit("SUBSELECT"), WB>>,
                                          <<Lit("("), Star("s"), Lit("SELECT")>> >>)>>],
       [weight |-> 2, pattern |-> <<WB, Lit("UNION"), WB>>],
       [weight |-> 1, pattern |-> <<WB, Lit("GROUP BY"), WB>>],
       [weight |-> 1, pattern |-> <<WB, Lit("HAVING"), WB>>],
       [weight |-> 1, pattern |-> <<WB, Lit("ORDER BY"), WB>>],
       [weight |-> 1, pattern |-> <<WB, Lit("DISTINCT"), WB>>],
       [weight |-> 3, pattern |-> <<WB, Lit("WINDOW"), WB>>],
       [weight |-> 2, pattern |-> <<Alt(<< <<WB, Lit("CTE"), WB>>,
                                          <<WB, Lit("WITH"), Plus("s"), Plus("w"),
                                            Plus("s"), Lit("AS")>> >>)>>] >>

RECURSIVE complexityScore(_, _)
complexityScore(query, k) ==
    IF k > Len(complexityIndicators) THEN 0
    ELSE CountMatches(complexityIndicators[k].pattern, query) * complexityIndicators[k].weight
         + complexityScore(query, k + 1)

estimateComplexity(query) ==
    LET score == complexityScore(query, 1)
    IN  IF score <= 2 THEN "low" ELSE IF score <= 6 THEN "medium" ELSE "high"

tableNamePrefixes ==
    << <<Lit("FROM"), Plus("s")>>,
       <<Lit("JOIN"), Plus("s")>>,
       <<Lit("INSERT"), Plus("s"), Lit("INTO"), Plus("s")>>,
       <<Lit("UPDATE"), Plus("s")>>,
       <<Lit("DELETE"), Plus("s"), Lit("FROM"), Plus("s")>> >>

\* the captures of prefix([\w.]+) in its successive matches, taken from the text as given
RECURSIVE capturesFrom(_, _, _)
capturesFrom(prefix, query, from) ==
    LET upper == toUpperCase(query)
        re == prefix \o <<Plus("wdot")>>
        starts == {i \in MatchStarts(re, upper) : i >= from}
    IN  IF starts = {} THEN <<>>
        ELSE LET i == SetMin(starts)
                 b == SetMax({p \in MatchEnds(prefix, 1, upper, i) :
                                RunEnds(upper, p, "wdot", 1) # {}})
                 e == SetMax(RunEnds(upper, b, "wdot", 1))
             IN  <<SubSeq(query, b, e - 1)>> \o capturesFrom(prefix, query, e)

RECURSIVE addAll(_, _)
addAll(tables, names) ==
    IF names = <<>> THEN tables
    ELSE addAll(IF \E k \in DOMAIN tables : tables[k] = Head(names)
                THEN tables ELSE Append(tables, Head(names)),
                Tail(names))

RECURSIVE tablesFrom(_, _, _)
tablesFrom(query, k, tables) ==
    IF k > Len(tableNamePrefixes) THEN tables
    ELSE tablesFrom(query, k + 1, addAll(tables, capturesFrom(tableNamePrefixes[k], query, 1)))

extractTableNames(query) == tablesFrom(query, 1, <<>>)

\* validate's check for mutations without WHERE clause: what it adds to errors
missingWhereErrors(queryType, isMutation, normalizedQuery) ==
    IF isMutation /\ ~includes(normalizedQuery, "WHERE") /\ queryType = "DELETE"
    THEN <<CriticalFinding("DELETE_WITHOUT_WHERE",
               "DELETE statement without WHERE clause will remove all rows",
               "Add a WHERE clause to limit the deletion scope.")>>
    ELSE <<>>

\* validate's check for mutations without WHERE clause: what it adds to warnings
missingWhereWarnings(queryType, isMutation, normalizedQuery) ==
    IF isMutation /\ ~includes(normalizedQuery, "WHERE") /\ queryType = "UPDATE"
    THEN <<WarningFinding("UPDATE_WITHOUT_WHERE",
               "UPDATE statement without WHERE clause will modify all rows",
               "Add a WHERE clause to limit the update scope.")>>
    ELSE <<>>

validate(query) ==
    LET normalizedQuery == toUpperCase(trim(query))
        queryType == detectQueryType(query)
        isMutation == isMutationQuery(queryType)
        dangerousOps == detectDangerousOperations(normalizedQuery)
        dangerErrors ==
            [k \in 1..Len(dangerousOps) |->
                CriticalFinding("DANGEROUS_OPERATION",
                                "Dangerous operation detected: " \o dangerousOps[k],
                                "Review this operation carefully before executing.")]
        errors == dangerErrors \o missingWhereErrors(queryType, isMutation, normalizedQuery)
        expensiveOps == detectExpensiveOperations(normalizedQuery)
        warnings ==
            detectInjectionPatterns(query) \o
            missingWhereWarnings(queryType, isMutation, normalizedQuery) \o
            (IF includes(normalizedQuery, "SELECT *")
             THEN <<InfoFinding("SELECT_STAR",
                        "Using SELECT * may retrieve unnecessary columns",
                        "Specify only the columns you need for better performance.")>>
             ELSE <<>>) \o
            (IF queryType = "SELECT" /\ ~includes(normalizedQuery, "LIMIT")
             THEN <<InfoFinding("MISSING_LIMIT",
                        "SELECT query without LIMIT may return large result sets",
                        "Consider adding LIMIT clause to control result size.")>>
             ELSE <<>>) \o
            (IF hasCartesianProduct(normalizedQuery)
             THEN <<WarningFinding("CARTESIAN_PRODUCT",
                        "Query may produce cartesian product",
                        "Ensure proper JOIN conditions between tables.")>>
             ELSE <<>>) \o
            [k \in 1..Len(expensiveOps) |->
                WarningFinding("EXPENSIVE_OPERATION",
                               "Potentially expensive operation detected: " \o expensiveOps[k],
                               "This operation may impact performance on large tables.")]
        requiresConfirmation == isMutation \/ Len(dangerousOps) > 0 \/ Len(errors) > 0
    IN  [isValid |-> Len(errors) = 0,
         errors |-> errors,
         warnings |-> warnings,
         metadata |-> [queryType |-> queryType,
                       isMutation |-> isMutation,
                       tablesAccessed |-> extractTableNames(query),
                       estimatedComplexity |-> estimateComplexity(normalizedQuery),
                       requiresConfirmation |-> requiresConfirmation]]

-----------------------------------------------------------------------------
(* JavaScript values as they arrive in a tool call's arguments: a member of *)
(* the JSON object or undefined when the member is missing.                 *)

JsString(s) == [t |-> "string", v |-> s]
JsUndefined == [t |-> "undefined", v |-> ""]

NoOutcome == [status |-> "none"]
Returned(value) == [status |-> "returned", value |-> value]
Threw(message) == [status |-> "threw", message |-> message]

\* a call of validate from JavaScript: query.trim() of a value that is no string throws
validateCall(arg) ==
    IF arg.t = "string" THEN Returned(validate(arg.v))
    ELSE Threw("TypeError: Cannot read properties of undefined (reading 'trim')")

-----------------------------------------------------------------------------
(* The query texts the validator is applied to: a statement followed by up *)
(* to MaxClauses further pieces of text.                                   *)

MaxClauses == 2

Stems ==
    { "SELECT * FROM users",
      "select id from users, orders",
      "DELETE FROM users",
      "  delete from users",
      "UPDATE users SET active=false",
      "UPDATE users SET note='execute'",
      "INSERT INTO logs VALUES (1)",
      "DROP TABLE users",
      "drop database app",
      "TRUNCATE users",
      "ALTER TABLE users DROP COLUMN age",
      "CREATE TABLE t (a int)",
      "BEGIN",
      "SHOW TABLES",
      "" }

Clauses ==
    { " WHERE id = 1",
      ";",
      "; DROP TABLE users",
      " -- nowhere",
      " WHERE n = '' OR 1=1",
      " \n" }

RECURSIVE ClausesUpTo(_)
ClausesUpTo(n) ==
    IF n = 0 THEN {""}
    ELSE LET shorter == ClausesUpTo(n - 1)
         IN  shorter \cup {s \o c : s \in shorter, c \in Clauses}

Queries == {s \o c : s \in Stems, c \in ClausesUpTo(MaxClauses)}

-----------------------------------------------------------------------------
(* BaseDatabaseClient: the helpers the three adapters share.               *)

JsNumber(n) == [t |-> "number", v |-> n]
JsBoolean(b) == [t |-> "boolean", v |-> b]

\* !value for a number, a boolean or undefined
Falsy(value) ==
    \/ value.t = "undefined"
    \/ value.t = "number" /\ value.v = 0
    \/ value.t = "boolean" /\ value.v = FALSE

defaultTimeout == 30000
maxTimeout == 300000

normalizeTimeout(timeout) ==
    IF Falsy(timeout) THEN defaultTimeout
    ELSE IF timeout.v < 0 THEN defaultTimeout
    ELSE IF timeout.v > maxTimeout THEN maxTimeout
    ELSE timeout.v

defaultMaxRows == 1000
absoluteMaxRows == 10000

normalizeMaxRows(maxRows) ==
    IF Falsy(maxRows) THEN defaultMaxRows
    ELSE IF maxRows.v < 0 THEN defaultMaxRows
    ELSE IF maxRows.v > absoluteMaxRows THEN absoluteMaxRows
    ELSE maxRows.v

NotConnectedMessage == "Database client is not connected. Call connect() first."

-----------------------------------------------------------------------------
(* The adapters.  An adapter's handle is its pool (MySQLClient.pool,       *)
(* PostgreSQLClient.pool) or its database (SQLiteClient.db); 0 is null.    *)

MaxAdapters == 2
MaxHandles == 2
MaxTasks == 1

AdapterIds == 1..MaxAdapters
HandleIds == 1..MaxHandles
TaskIds == 1..MaxTasks

Kinds == {"mysql", "postgresql", "sqlite"}

\* DatabaseConfig, as far as the adapters branch on it
Configs ==
    {[type |-> k, filename |-> TRUE] : k \in Kinds} \cup {[type |-> "sqlite", filename |-> FALSE]}

NoAdapter == [kind |-> "none", filename |-> FALSE, connected |-> FALSE, handle |-> 0]

\* new MySQLClient(config), new SQLiteClient(config), new PostgreSQLClient(config)
NewAdapter(config) ==
    [kind |-> config.type, filename |-> config.filename, connected |-> FALSE, handle |-> 0]

NoHandle == [state |-> "unused", owner |-> 0]
NoCall == [op |-> "none"]

\* no pool whose connections are followed
NoConnections == <<>>

\* what a call, or the part of it up to its first await, did to the adapters
Pending == [status |-> "pending"]
Effect(ads, hs, outcome) == [adapters |-> ads, handles |-> hs, outcome |-> outcome]

NextHandle(hs) == SetMin({h \in DOMAIN hs : hs[h].state = "unused"})
CanCreateHandle(hs) == \E h \in DOMAIN hs : hs[h].state = "unused"

\* BaseDatabaseClient.isConnected
isConnected(ads, a) == ads[a].connected

\* MySQLClient.connect up to the await: the pool is assigned before the test connection
MySQLClient_connect(ads, hs, a) ==
    IF ads[a].connected THEN Effect(ads, hs, Returned("void"))
    ELSE LET h == NextHandle(hs)
         IN  Effect([ads EXCEPT ![a].handle = h],
                    [hs EXCEPT ![h] = [state |-> "open", owner |-> a]], Pending)

\* MySQLClient.connect after pool.getConnection() settled
MySQLClient_connectSettled(ads, hs, a, acquired) ==
    IF acquired THEN Effect([ads EXCEPT ![a].connected = TRUE], hs, Returned("void"))
    ELSE Effect(ads, hs, Threw("getConnection failed"))

\* PostgreSQLClient.connect with its guard removed, wherever MaxHandles leaves a
\* pool to create
PostgreSQLClient_connectWithoutGuard(ads, hs, a) ==
    IF ads[a].connected /\ ~CanCreateHandle(hs) THEN Effect(ads, hs, Returned("void"))
    ELSE LET h == NextHandle(hs)
         IN  Effect([ads EXCEPT ![a].handle = h],
                    [hs EXCEPT ![h] = [state |-> "open", owner |-> a]], Pending)

\* PostgreSQLClient.connect up to the await
PostgreSQLClient_connect(ads, hs, a) ==
    IF ads[a].connected THEN Effect(ads, hs, Returned("void"))
    ELSE LET h == NextHandle(hs)
         IN  Effect([ads EXCEPT ![a].handle = h],
                    [hs EXCEPT ![h] = [state |-> "open", owner |-> a]], Pending)

\* PostgreSQLClient.connect after pool.connect() settled
PostgreSQLClient_connectSettled(ads, hs, a, acquired) ==
    IF acquired THEN Effect([ads EXCEPT ![a].connected = TRUE], hs, Returned("void"))
    ELSE Effect(ads, hs, Threw("pool.connect failed"))

\* what new Database(filename) and the pragmas after it can do
SQLiteOpenings == {"opened", "open failed", "pragma failed"}

\* SQLiteClient.connect: it has no await and runs to its end
SQLiteClient_connect(ads, hs, a, opening) ==
    IF ads[a].connected THEN Effect(ads, hs, Returned("void"))
    ELSE IF ~ads[a].filename THEN Effect(ads, hs, Threw("SQLite filename is required"))
    ELSE IF opening = "open failed"
    THEN Effect(ads, hs, Threw("Failed to connect to SQLite: open failed"))
    ELSE LET h == NextHandle(hs)
             opened == [hs EXCEPT ![h] = [state |-> "open", owner |-> a]]
         IN  IF opening = "pragma failed"
             THEN Effect([ads EXCEPT ![a].handle = h], opened,
                         Threw("Failed to connect to SQLite: pragma failed"))
             ELSE Effect([ads EXCEPT ![a].handle = h, ![a].connected = TRUE], opened,
                         Returned("void"))

\* client.connect(), dispatched on the class of the client
connect(ads, hs, a, opening) ==
    CASE ads[a].kind = "mysql" -> MySQLClient_connect(ads, hs, a)
      [] ads[a].kind = "postgresql" -> PostgreSQLClient_connect(ads, hs, a)
      [] OTHER -> SQLiteClient_connect(ads, hs, a, opening)

connectSettled(ads, hs, a, acquired) ==
    IF ads[a].kind = "mysql" THEN MySQLClient_connectSettled(ads, hs, a, acquired)
    ELSE PostgreSQLClient_connectSettled(ads, hs, a, acquired)

\* whether connect() would have to create a pool or a database handle
connectCreates(ads, a, opening) ==
    /\ ~ads[a].connected
    /\ ads[a].kind = "sqlite" => ads[a].filename /\ opening # "open failed"

\* MySQLClient.disconnect up to the await of pool.end()
MySQLClient_disconnect(ads, hs, a) ==
    IF ads[a].handle # 0
    THEN Effect(ads, [hs EXCEPT ![ads[a].handle].state = "closed"], Pending)
    ELSE Effect([ads EXCEPT ![a].connected = FALSE], hs, Returned("void"))

\* MySQLClient.disconnect after pool.end() settled
MySQLClient_disconnectSettled(ads, hs, a, ended) ==
    IF ended THEN Effect([ads EXCEPT ![a].handle = 0, ![a].connected = FALSE], hs, Returned("void"))
    ELSE Effect(ads, hs, Threw("pool.end failed"))

\* PostgreSQLClient.disconnect up to the await of pool.end()
PostgreSQLClient_disconnect(ads, hs, a) ==
    IF ads[a].handle # 0
    THEN Effect(ads, [hs EXCEPT ![ads[a].handle].state = "closed"], Pending)
    ELSE Effect([ads EXCEPT ![a].connected = FALSE], hs, Returned("void"))

PostgreSQLClient_disconnectKeepsPool(ads, hs, a, ended) ==
    IF ended THEN Effect([ads EXCEPT ![a].connected = FALSE], hs, Returned("void"))
    ELSE Effect(ads, hs, Threw("pool.end failed"))

\* PostgreSQLClient.disconnect after pool.end() settled
PostgreSQLClient_disconnectSettled(ads, hs, a, ended) ==
    IF ended THEN Effect([ads EXCEPT ![a].handle = 0, ![a].connected = FALSE], hs, Returned("void"))
    ELSE Effect(ads, hs, Threw("pool.end failed"))

\* SQLiteClient.disconnect
SQLiteClient_disconnect(ads, hs, a) ==
    IF ads[a].handle # 0
    THEN Effect([ads EXCEPT ![a].handle = 0, ![a].connected = FALSE],
                [hs EXCEPT ![ads[a].handle].state = "closed"], Returned("void"))
    ELSE Effect([ads EXCEPT ![a].connected = FALSE], hs, Returned("void"))

\* client.disconnect(), dispatched on the class of the client
disconnect(ads, hs, a) ==
    CASE ads[a].kind = "mysql" -> MySQLClient_disconnect(ads, hs, a)
      [] ads[a].kind = "postgresql" -> PostgreSQLClient_disconnect(ads, hs, a)
      [] OTHER -> SQLiteClient_disconnect(ads, hs, a)

disconnectSettled(ads, hs, a, ended) ==
    IF ads[a].kind = "mysql" THEN MySQLClient_disconnectSettled(ads, hs, a, ended)
    ELSE PostgreSQLClient_disconnectSettled(ads, hs, a, ended)

-----------------------------------------------------------------------------
(* query and explain.  A request to the engine is kept as the text that    *)
(* is sent, together with the method that sent it.                          *)

Req(by, sql) == [by |-> by, sql |-> sql]
Response(outcome, requests) == [outcome |-> outcome, requests |-> requests]

\* QueryRequest: the text and the options the adapters read
QueryRequest(query, maxRows, timeout, explain, analyze) ==
    [query |-> query,
     options |-> [maxRows |-> maxRows, timeout |-> timeout, explain |-> explain, analyze |-> analyze]]

\* the rows an engine hands back for a statement that yields n of them
EngineRows(n) == [i \in 1..n |-> i]

\* whether the driver hands back a row list for the text, or a result header
EngineReturnsRows(query) ==
    LET text == toUpperCase(trim(query))
    IN  \E keyword \in {"SELECT", "SHOW", "WITH"} : startsWith(text, keyword)

\* Array.prototype.slice(0, end) for a whole number end
sliceToOneMore(xs, end) == SubSeq(xs, 1, IF end + 1 < Len(xs) THEN end + 1 ELSE Len(xs))
slice(xs, end) == SubSeq(xs, 1, IF end < Len(xs) THEN end ELSE Len(xs))

\* the pool or the database handle can take a request
Usable(ad, hs) == ad.handle # 0 /\ hs[ad.handle].state = "open"
HandleError(ad) == IF ad.handle = 0 THEN "Cannot read properties of null" ELSE "handle is closed"

EngineError == "engine error"

MySQLClient_explainAlwaysAnalyze(ad, hs, query, analyze, fails) ==
    LET explainQuery == "EXPLAIN ANALYZE " \o query
    IN  IF ~Usable(ad, hs) THEN Response(Threw("EXPLAIN failed: " \o HandleError(ad)), <<>>)
        ELSE IF fails THEN Response(Threw("EXPLAIN failed: " \o EngineError), <<Req("explain", explainQuery)>>)
        ELSE Response(Returned("plan"), <<Req("explain", explainQuery)>>)

\* MySQLClient.explain(query, analyze = false)
MySQLClient_explain(ad, hs, query, analyze, fails) ==
    LET explainQuery == IF ~Falsy(analyze) THEN "EXPLAIN ANALYZE " \o query
                        ELSE "EXPLAIN FORMAT=JSON " \o query
    IN  IF ~Usable(ad, hs) THEN Response(Threw("EXPLAIN failed: " \o HandleError(ad)), <<>>)
        ELSE IF fails THEN Response(Threw("EXPLAIN failed: " \o EngineError), <<Req("explain", explainQuery)>>)
        ELSE Response(Returned("plan"), <<Req("explain", explainQuery)>>)

\* PostgreSQLClient.explain(query, analyze = false)
PostgreSQLClient_explain(ad, hs, query, analyze, fails) ==
    LET explainQuery == "EXPLAIN (FORMAT JSON" \o (IF ~Falsy(analyze) THEN ", ANALYZE" ELSE "")
                            \o ") " \o query
    IN  IF ~Usable(ad, hs) THEN Response(Threw("EXPLAIN failed: " \o HandleError(ad)), <<>>)
        ELSE IF fails THEN Response(Threw("EXPLAIN failed: " \o EngineError), <<Req("explain", explainQuery)>>)
        ELSE Response(Returned("plan"), <<Req("explain", explainQuery)>>)

\* SQLiteClient.explain(query, analyze = false): both branches build the same text
SQLiteClient_explain(ad, hs, query, analyze, fails) ==
    LET explainQuery == IF ~Falsy(analyze) THEN "EXPLAIN QUERY PLAN " \o query
                        ELSE "EXPLAIN QUERY PLAN " \o query
    IN  IF ~ad.connected THEN Response(Threw(NotConnectedMessage), <<>>)
        ELSE IF ~Usable(ad, hs) THEN Response(Threw("EXPLAIN failed: " \o HandleError(ad)), <<>>)
        ELSE IF fails THEN Response(Threw("EXPLAIN failed: " \o EngineError), <<Req("explain", explainQuery)>>)
        ELSE Response(Returned("plan"), <<Req("explain", explainQuery)>>)

\* client.explain(query, analyze), dispatched on the class of the client
explain(ad, hs, query, analyze, fails) ==
    CASE ad.kind = "mysql" -> MySQLClient_explain(ad, hs, query, analyze, fails)
      [] ad.kind = "postgresql" -> PostgreSQLClient_explain(ad, hs, query, analyze, fails)
      [] OTHER -> SQLiteClient_explain(ad, hs, query, analyze, fails)

QueryResult(rows, rowCount) == [rows |-> rows, rowCount |-> rowCount, explainPlan |-> FALSE]

\* the tail every query method shares: the explain plan, if the options ask for one
withExplainPlan(ad, hs, request, result, sent, fails) ==
    IF Falsy(request.options.explain) THEN Response(Returned(result), sent)
    ELSE LET plan == explain(ad, hs, request.query, request.options.analyze, fails)
         IN  IF plan.outcome.status = "threw"
             THEN Response(Threw("Query execution failed: " \o plan.outcome.message),
                           sent \o plan.requests)
             ELSE Response(Returned([result EXCEPT !.explainPlan = TRUE]), sent \o plan.requests)

\* what the engine does with one call: the rows the statement yields or affects, and
\* which of the call's requests fails (0 for none)
Engine(rows, failAt) == [rows |-> rows, failAt |-> failAt]

\* MySQLClient.query
MySQLClient_query(ad, hs, request, eng) ==
    IF ~ad.connected THEN Response(Threw(NotConnectedMessage), <<>>)
    ELSE IF ~Usable(ad, hs)
    THEN Response(Threw("Query execution failed: " \o HandleError(ad)), <<>>)
    ELSE
    LET maxRows == normalizeMaxRows(request.options.maxRows)
        setTimeout ==
            IF request.options.timeout.t # "undefined"
            THEN <<Req("query", "SET SESSION MAX_EXECUTION_TIME="
                                    \o ToString(normalizeTimeout(request.options.timeout)))>>
            ELSE <<>>
        sent == setTimeout \o <<Req("query", request.query)>>
    IN  IF eng.failAt \in 1..Len(sent)
        THEN Response(Threw("Query execution failed: " \o EngineError), SubSeq(sent, 1, eng.failAt))
        ELSE IF ~EngineReturnsRows(request.query)
        THEN Response(Threw("Query execution failed: rows.slice is not a function"), sent)
        ELSE LET rows == EngineRows(eng.rows)
                 limitedRows == slice(rows, maxRows)
             IN  withExplainPlan(ad, hs, request, QueryResult(limitedRows, Len(rows)), sent,
                                 eng.failAt = Len(sent) + 1)

\* SQLiteClient.query
SQLiteClient_query(ad, hs, request, eng) ==
    IF ~ad.connected THEN Response(Threw(NotConnectedMessage), <<>>)
    ELSE IF ~Usable(ad, hs)
    THEN Response(Threw("Query execution failed: " \o HandleError(ad)), <<>>)
    ELSE
    LET maxRows == normalizeMaxRows(request.options.maxRows)
        isSelect == startsWith(toUpperCase(trim(request.query)), "SELECT")
        sent == <<Req("query", request.query)>>
    IN  IF eng.failAt = 1
        THEN Response(Threw("Query execution failed: " \o EngineError), sent)
        ELSE LET all == EngineRows(eng.rows)
                 result == IF isSelect THEN QueryResult(slice(all, maxRows), Len(all))
                           ELSE QueryResult(<<>>, eng.rows)
             IN  withExplainPlan(ad, hs, request, result, sent, eng.failAt = 2)

\* PostgreSQLClient.query
PostgreSQLClient_query(ad, hs, request, eng) ==
    IF ~ad.connected THEN Response(Threw(NotConnectedMessage), <<>>)
    ELSE IF ~Usable(ad, hs)
    THEN Response(Threw("Query execution failed: " \o HandleError(ad)), <<>>)
    ELSE
    LET timeout == normalizeTimeout(request.options.timeout)
        maxRows == normalizeMaxRows(request.options.maxRows)
        sent == <<Req("query", "SET statement_timeout = " \o ToString(timeout)),
                  Req("query", request.query)>>
    IN  IF eng.failAt \in 1..Len(sent)
        THEN Response(Threw("Query execution failed: " \o EngineError), SubSeq(sent, 1, eng.failAt))
        ELSE LET resultRows == IF EngineReturnsRows(request.query) THEN EngineRows(eng.rows)
                               ELSE <<>>
                 rows == slice(resultRows, maxRows)
             IN  withExplainPlan(ad, hs, request, QueryResult(rows, eng.rows), sent,
                                 eng.failAt = Len(sent) + 1)

\* client.query(request), dispatched on the class of the client
query(ad, hs, request, eng) ==
    CASE ad.kind = "mysql" -> MySQLClient_query(ad, hs, request, eng)
      [] ad.kind = "postgresql" -> PostgreSQLClient_query(ad, hs, request, eng)
      [] OTHER -> SQLiteClient_query(ad, hs, request, eng)

-----------------------------------------------------------------------------
(* Calls in flight and the record of the call that completed last.         *)

NoConfig == [type |-> "none", filename |-> FALSE]
NoInput == [request |-> "none"]

\* the adapter as a caller can observe it, with the pools and handles that exist
Snapshot(ads, hs, a) ==
    [connected |-> IF a = 0 THEN FALSE ELSE ads[a].connected,
     handle |-> IF a = 0 THEN 0 ELSE ads[a].handle,
     handles |-> hs]

Task(op, phase, a, config, before) ==
    [op |-> op, phase |-> phase, adapter |-> a, config |-> config, before |-> before]

IdleTask == Task("idle", "", 0, NoConfig, Snapshot(<<>>, [h \in HandleIds |-> NoHandle], 0))

Call(op, a, args, outcome, requests, before, after) ==
    [op |-> op, adapter |-> a, args |-> args, outcome |-> outcome, requests |-> requests,
     before |-> before, after |-> after]

FreeTasks == {t \in DOMAIN tasks : tasks[t].op = "idle"}
Constructed == {a \in DOMAIN adapters : adapters[a].kind # "none"}

\* nothing constructed, nothing in flight, nothing called
IdleAdapters ==
    /\ adapters = [a \in AdapterIds |-> NoAdapter]
    /\ handles = [h \in HandleIds |-> NoHandle]
    /\ tasks = [t \in TaskIds |-> IdleTask]
    /\ last = NoCall

-----------------------------------------------------------------------------
(* SpecValidator: QueryValidator.validate applied to a text.               *)

ValidatorInit ==
    /\ vInput \in {JsString(q) : q \in Queries}
    /\ vOutcome = NoOutcome
    /\ IdleAdapters
    /\ qInput = NoInput
    /\ client = 0
    /\ connections = NoConnections

\* QueryValidator.validate(query)
Validate ==
    /\ vOutcome.status = "none"
    /\ vOutcome' = validateCall(vInput)
    /\ UNCHANGED <<vInput, adapterVars, queryVars, serverVars>>

ValidatorNext == Validate

SpecValidator == ValidatorInit /\ [][ValidatorNext]_vars

-----------------------------------------------------------------------------
(* SpecAdapter: one adapter, called directly; calls overlap at their awaits. *)

AdapterInit ==
    /\ vInput = JsUndefined
    /\ vOutcome = NoOutcome
    /\ \E config \in Configs :
           adapters = [a \in AdapterIds |-> IF a = 1 THEN NewAdapter(config) ELSE NoAdapter]
    /\ handles = [h \in HandleIds |-> NoHandle]
    /\ tasks = [t \in TaskIds |-> IdleTask]
    /\ last = NoCall
    /\ qInput = NoInput
    /\ client = 0
    /\ connections = NoConnections

\* adapter.connect() is called
Connect(a, opening) ==
    /\ a \in Constructed
    /\ connectCreates(adapters, a, opening) => CanCreateHandle(handles)
    /\ LET e == connect(adapters, handles, a, opening)
           before == Snapshot(adapters, handles, a)
       IN  /\ adapters' = e.adapters
           /\ handles' = e.handles
           /\ IF e.outcome = Pending
              THEN /\ FreeTasks # {}
                   /\ tasks' = [tasks EXCEPT ![SetMin(FreeTasks)] =
                                    Task("connect", "await", a, NoConfig, before)]
                   /\ UNCHANGED last
              ELSE /\ last' = Call("connect", a, <<>>, e.outcome, <<>>, before,
                                   Snapshot(e.adapters, e.handles, a))
                   /\ UNCHANGED tasks
    /\ UNCHANGED <<validatorVars, queryVars, serverVars>>

\* the test connection of a pending connect() is acquired, or it is refused
ConnectSettle(t, acquired) ==
    /\ tasks[t].op = "connect"
    /\ LET a == tasks[t].adapter
           e == connectSettled(adapters, handles, a, acquired)
       IN  /\ adapters' = e.adapters
           /\ handles' = e.handles
           /\ last' = Call("connect", a, <<>>, e.outcome, <<>>, tasks[t].before,
                           Snapshot(e.adapters, e.handles, a))
    /\ tasks' = [tasks EXCEPT ![t] = IdleTask]
    /\ UNCHANGED <<validatorVars, queryVars, serverVars>>

\* adapter.disconnect() is called
Disconnect(a) ==
    /\ a \in Constructed
    /\ LET e == disconnect(adapters, handles, a)
           before == Snapshot(adapters, handles, a)
       IN  /\ adapters' = e.adapters
           /\ handles' = e.handles
           /\ IF e.outcome = Pending
              THEN /\ FreeTasks # {}
                   /\ tasks' = [tasks EXCEPT ![SetMin(FreeTasks)] =
                                    Task("disconnect", "await", a, NoConfig, before)]
                   /\ UNCHANGED last
              ELSE /\ last' = Call("disconnect", a, <<>>, e.outcome, <<>>, before,
                                   Snapshot(e.adapters, e.handles, a))
                   /\ UNCHANGED tasks
    /\ UNCHANGED <<validatorVars, queryVars, serverVars>>

\* pool.end() of a pending disconnect() resolves, or it rejects
DisconnectSettle(t, ended) ==
    /\ tasks[t].op = "disconnect"
    /\ LET a == tasks[t].adapter
           e == disconnectSettled(adapters, handles, a, ended)
       IN  /\ adapters' = e.adapters
           /\ handles' = e.handles
           /\ last' = Call("disconnect", a, <<>>, e.outcome, <<>>, tasks[t].before,
                           Snapshot(e.adapters, e.handles, a))
    /\ tasks' = [tasks EXCEPT ![t] = IdleTask]
    /\ UNCHANGED <<validatorVars, queryVars, serverVars>>

ExplainTexts == {"SELECT * FROM users", "DELETE FROM users"}
AnalyzeArguments == {JsUndefined, JsBoolean(FALSE), JsBoolean(TRUE)}

\* adapter.explain(query, analyze) is called
Explain(a, text, analyze, fails) ==
    /\ a \in Constructed
    /\ LET r == explain(adapters[a], handles, text, analyze, fails)
           now == Snapshot(adapters, handles, a)
       IN  last' = Call("explain", a, <<JsString(text), analyze>>, r.outcome, r.requests, now, now)
    /\ UNCHANGED <<adapters, handles, tasks, validatorVars, queryVars, serverVars>>

AdapterNext ==
    \/ \E a \in AdapterIds, opening \in SQLiteOpenings : Connect(a, opening)
    \/ \E t \in TaskIds, acquired \in BOOLEAN : ConnectSettle(t, acquired)
    \/ \E a \in AdapterIds : Disconnect(a)
    \/ \E t \in TaskIds, ended \in BOOLEAN : DisconnectSettle(t, ended)
    \/ \E a \in AdapterIds, text \in ExplainTexts, analyze \in AnalyzeArguments, fails \in BOOLEAN :
           Explain(a, text, analyze, fails)

SpecAdapter == AdapterInit /\ [][AdapterNext]_vars

-----------------------------------------------------------------------------
(* SpecQuery: client.query applied to one request, on an adapter in any    *)
(* state its connect calls can leave it in.                                 *)

QueryTexts == {"SELECT * FROM users", "DELETE FROM users"}
MaxRowsOptions == {JsUndefined, JsNumber(-1), JsNumber(0), JsNumber(2), JsNumber(20000)}
TimeoutOptions == {JsUndefined, JsNumber(0), JsNumber(5000), JsNumber(400000)}
ExplainOptions ==
    {<<JsUndefined, JsUndefined>>, <<JsBoolean(TRUE), JsUndefined>>, <<JsBoolean(TRUE), JsBoolean(TRUE)>>}
EngineRowCounts == {0, 3, 1001, 10001}
EngineFailures == 0..3

QueryInputs ==
    {[request |-> QueryRequest(text, maxRows, timeout, plan[1], plan[2]),
      eng |-> Engine(rows, failAt)] :
        text \in QueryTexts, maxRows \in MaxRowsOptions, timeout \in TimeoutOptions,
        plan \in ExplainOptions, rows \in EngineRowCounts, failAt \in EngineFailures}

QueryInit ==
    /\ vInput = JsUndefined
    /\ vOutcome = NoOutcome
    /\ \E config \in Configs :
           adapters = [a \in AdapterIds |-> IF a = 1 THEN NewAdapter(config) ELSE NoAdapter]
    /\ handles = [h \in HandleIds |-> NoHandle]
    /\ tasks = [t \in TaskIds |-> IdleTask]
    /\ last = NoCall
    /\ qInput \in QueryInputs
    /\ client = 0
    /\ connections = NoConnections

\* adapter.query(request) is called
Query(a) ==
    /\ a \in Constructed
    /\ LET r == query(adapters[a], handles, qInput.request, qInput.eng)
           now == Snapshot(adapters, handles, a)
       IN  last' = Call("query", a, <<qInput.request>>, r.outcome, r.requests, now, now)
    /\ UNCHANGED <<adapters, handles, tasks, validatorVars, queryVars, serverVars>>

QueryNext ==
    \/ \E a \in AdapterIds, opening \in SQLiteOpenings : Connect(a, opening)
    \/ \E t \in TaskIds, acquired \in BOOLEAN : ConnectSettle(t, acquired)
    \/ \E a \in AdapterIds : Query(a)

SpecQuery == QueryInit /\ [][QueryNext]_vars

-----------------------------------------------------------------------------
(* SpecServer: the MCP server.  Requests are handled as their lines arrive *)
(* and are not awaited, so tool calls overlap at their awaits.              *)

ServerNotConnectedMessage == "Not connected to database. Use connect_database tool first."

\* the configurations connect_database is called with; the last has no supported type
ServerConfigs == Configs \cup {[type |-> "oracle", filename |-> FALSE]}

ServerInit ==
    /\ vInput = JsUndefined
    /\ vOutcome = NoOutcome
    /\ IdleAdapters
    /\ qInput = NoInput
    /\ client = 0
    /\ connections = NoConnections

NextAdapter(ads) == SetMin({a \in DOMAIN ads : ads[a].kind = "none"})
CanConstruct(ads) == \E a \in DOMAIN ads : ads[a].kind = "none"

Release(t) == IF t = 0 THEN tasks ELSE [tasks EXCEPT ![t] = IdleTask]

\* MCPServer.ensureConnected
serverConnected(ads, cl) == cl # 0 /\ isConnected(ads, cl)

\* connectDatabase from the switch on config.type up to the await of connect(), run
\* on the adapters ads and handles hs; t is the slot of the call, 0 when it has not
\* awaited anything yet
CreateAndConnect(t, config, opening, before, ads, hs) ==
    IF config.type \notin Kinds
    THEN /\ adapters' = ads
         /\ handles' = hs
         /\ last' = Call("connect_database", client, <<config>>,
                         Threw("Failed to connect: Unsupported database type: " \o config.type),
                         <<>>, before, Snapshot(ads, hs, client))
         /\ tasks' = Release(t)
         /\ UNCHANGED client
    ELSE /\ CanConstruct(ads)
         /\ LET a == NextAdapter(ads)
                made == [ads EXCEPT ![a] = NewAdapter(config)]
            IN  /\ connectCreates(made, a, opening) => CanCreateHandle(hs)
                /\ LET e == connect(made, hs, a, opening)
                   IN  /\ adapters' = e.adapters
                       /\ handles' = e.handles
                       /\ client' = a
                       /\ IF e.outcome.status = "threw"
                          THEN /\ last' = Call("connect_database", a, <<config>>,
                                               Threw("Failed to connect: " \o e.outcome.message),
                                               <<>>, before, Snapshot(e.adapters, e.handles, a))
                               /\ tasks' = Release(t)
                          ELSE /\ t # 0 \/ FreeTasks # {}
                               /\ tasks' = [tasks EXCEPT ![IF t # 0 THEN t ELSE SetMin(FreeTasks)] =
                                      Task("connect_database",
                                           IF e.outcome = Pending THEN "connecting" ELSE "connected",
                                           a, config, before)]
                               /\ UNCHANGED last

\* connectDatabase from the call of this.client.introspect() up to its await
StartIntrospect(t, ads, hs) ==
    IF ~isConnected(ads, client)
    THEN /\ last' = Call("connect_database", client, <<tasks[t].config>>,
                         Threw("Failed to connect: " \o NotConnectedMessage), <<>>,
                         tasks[t].before, Snapshot(ads, hs, client))
         /\ tasks' = [tasks EXCEPT ![t] = IdleTask]
    ELSE /\ tasks' = [tasks EXCEPT ![t].phase = "introspecting", ![t].adapter = client]
         /\ UNCHANGED last

\* tools/call connect_database: connectDatabase up to its first await
ConnectDatabase(config, opening) ==
    /\ IF client = 0
       THEN CreateAndConnect(0, config, opening, Snapshot(adapters, handles, 0), adapters, handles)
       ELSE /\ FreeTasks # {}
            /\ LET e == disconnect(adapters, handles, client)
               IN  /\ adapters' = e.adapters
                   /\ handles' = e.handles
                   /\ tasks' = [tasks EXCEPT ![SetMin(FreeTasks)] =
                          Task("connect_database",
                               IF e.outcome = Pending THEN "disconnecting" ELSE "disconnected",
                               client, config, Snapshot(adapters, handles, client))]
            /\ UNCHANGED <<last, client>>
    /\ UNCHANGED <<validatorVars, queryVars>>

\* connectDatabase after the await of this.client.disconnect()
ConnectDatabaseDisconnected(t, ended, opening) ==
    /\ tasks[t].op = "connect_database"
    /\ \/ /\ tasks[t].phase = "disconnected"
          /\ ended
          /\ CreateAndConnect(t, tasks[t].config, opening, tasks[t].before, adapters, handles)
       \/ /\ tasks[t].phase = "disconnecting"
          /\ LET e == disconnectSettled(adapters, handles, tasks[t].adapter, ended)
             IN  IF e.outcome.status = "threw"
                 THEN /\ last' = Call("connect_database", client, <<tasks[t].config>>,
                                      Threw("Failed to connect: " \o e.outcome.message), <<>>,
                                      tasks[t].before, Snapshot(adapters, handles, client))
                      /\ tasks' = [tasks EXCEPT ![t] = IdleTask]
                      /\ UNCHANGED <<adapters, handles, client>>
                 ELSE CreateAndConnect(t, tasks[t].config, opening, tasks[t].before,
                                       e.adapters, e.handles)
    /\ UNCHANGED <<validatorVars, queryVars>>

\* connectDatabase after the await of this.client.connect()
ConnectDatabaseConnected(t, acquired) ==
    /\ tasks[t].op = "connect_database"
    /\ \/ /\ tasks[t].phase = "connected"
          /\ acquired
          /\ StartIntrospect(t, adapters, handles)
          /\ UNCHANGED <<adapters, handles>>
       \/ /\ tasks[t].phase = "connecting"
          /\ LET e == connectSettled(adapters, handles, tasks[t].adapter, acquired)
             IN  /\ adapters' = e.adapters
                 /\ handles' = e.handles
                 /\ IF e.outcome.status = "threw"
                    THEN /\ last' = Call("connect_database", client, <<tasks[t].config>>,
                                         Threw("Failed to connect: " \o e.outcome.message), <<>>,
                                         tasks[t].before, Snapshot(e.adapters, e.handles, client))
                         /\ tasks' = [tasks EXCEPT ![t] = IdleTask]
                    ELSE StartIntrospect(t, e.adapters, e.handles)
    /\ UNCHANGED <<client, validatorVars, queryVars>>

\* connectDatabase after the await of this.client.introspect()
ConnectDatabaseIntrospected(t, introspected) ==
    /\ tasks[t].op = "connect_database"
    /\ tasks[t].phase = "introspecting"
    /\ introspected => Usable(adapters[tasks[t].adapter], handles)
    /\ last' = Call("connect_database", client, <<tasks[t].config>>,
                    IF introspected THEN Returned("Database Connected Successfully")
                    ELSE Threw("Failed to connect: introspection failed"),
                    <<>>, tasks[t].before, Snapshot(adapters, handles, client))
    /\ tasks' = [tasks EXCEPT ![t] = IdleTask]
    /\ UNCHANGED <<adapters, handles, client, validatorVars, queryVars>>

\* the arguments the tools are called with: args.query, args.tableName, args.limit
ToolQueryArguments ==
    {JsUndefined, JsString("SELECT * FROM users"), JsString("DELETE FROM users"),
     JsString("UPDATE users SET active=false WHERE id = 1")}
ToolTableNames == {JsString("users"), JsString("users; DROP TABLE users --")}
ToolLimits == {JsUndefined, JsNumber(5)}
ToolExplainOptions == {<<JsUndefined, JsUndefined>>, <<JsBoolean(TRUE), JsBoolean(TRUE)>>}
ToolEngines == {Engine(2, 0)}

\* QueryValidator.validate on each of the query arguments
validateOn == [arg \in ToolQueryArguments |-> validateCall(arg)]

\* `${value}` in a template literal
JsToString(value) ==
    CASE value.t = "undefined" -> "undefined"
      [] value.t = "number" -> ToString(value.v)
      [] value.t = "boolean" -> (IF value.v THEN "true" ELSE "false")
      [] OTHER -> value.v

\* a tool call that ran to its end: its response is the result, or the error that
\* callTool caught
Respond(tool, outcome, requests) ==
    last' = Call(tool, client, <<>>, outcome, requests,
                 Snapshot(adapters, handles, client), Snapshot(adapters, handles, client))

\* tools/call execute_query
ExecuteQuery(arg, plan, eng) ==
    /\ IF ~serverConnected(adapters, client)
       THEN /\ Respond("execute_query", Threw(ServerNotConnectedMessage), <<>>)
            /\ UNCHANGED validatorVars
       ELSE \E validation \in {validateOn[arg]} :
                /\ vInput' = arg
                /\ vOutcome' = validation
                /\ IF validation.status = "threw"
                   THEN Respond("execute_query", validation, <<>>)
                   ELSE IF ~validation.value.isValid
                   THEN Respond("execute_query", Returned("Query Validation Failed"), <<>>)
                   ELSE \E result \in {query(adapters[client], handles,
                                              QueryRequest(arg.v, JsUndefined, JsUndefined,
                                                           plan[1], plan[2]),
                                              eng)} :
                            Respond("execute_query",
                                    IF result.outcome.status = "threw" THEN result.outcome
                                    ELSE Returned("Query Executed Successfully"),
                                    result.requests)
    /\ UNCHANGED <<adapters, handles, tasks, queryVars, serverVars>>

\* tools/call explain_query
ExplainQuery(arg, analyze, fails) ==
    /\ IF ~serverConnected(adapters, client)
       THEN Respond("explain_query", Threw(ServerNotConnectedMessage), <<>>)
       ELSE \E plan \in {explain(adapters[client], handles, JsToString(arg), analyze, fails)} :
                Respond("explain_query",
                        IF plan.outcome.status = "threw" THEN plan.outcome
                        ELSE Returned("Query Execution Plan"),
                        plan.requests)
    /\ UNCHANGED <<adapters, handles, tasks, validatorVars, queryVars, serverVars>>

\* tools/call optimize_query
OptimizeQuery(arg, fails) ==
    /\ IF ~serverConnected(adapters, client)
       THEN /\ Respond("optimize_query", Threw(ServerNotConnectedMessage), <<>>)
            /\ UNCHANGED validatorVars
       ELSE \E validation \in {validateOn[arg]} :
                /\ vInput' = arg
                /\ vOutcome' = validation
                /\ IF validation.status = "threw"
                   THEN Respond("optimize_query", validation, <<>>)
                   ELSE \E plan \in {explain(adapters[client], handles, arg.v,
                                            JsBoolean(FALSE), fails)} :
                            Respond("optimize_query",
                                    IF plan.outcome.status = "threw" THEN plan.outcome
                                    ELSE Returned("Query Optimization Analysis"),
                                    plan.requests)
    /\ UNCHANGED <<adapters, handles, tasks, queryVars, serverVars>>

\* tools/call validate_query
ValidateQuery(arg) ==
    /\ \E validation \in {validateOn[arg]} :
           /\ vInput' = arg
           /\ vOutcome' = validation
           /\ Respond("validate_query",
                      IF validation.status = "threw" THEN validation
                      ELSE IF validation.value.isValid THEN Returned("Query Validation Passed")
                      ELSE Returned("Query Validation Failed"),
                      <<>>)
    /\ UNCHANGED <<adapters, handles, tasks, queryVars, serverVars>>

\* tools/call sample_data
SampleData(tableName, limit, eng) ==
    /\ IF ~serverConnected(adapters, client)
       THEN Respond("sample_data", Threw(ServerNotConnectedMessage), <<>>)
       ELSE LET text == "SELECT * FROM " \o JsToString(tableName) \o " LIMIT "
                            \o JsToString(IF limit.t = "undefined" THEN JsNumber(10) ELSE limit)
            IN  \E result \in {query(adapters[client], handles,
                                       QueryRequest(text, JsUndefined, JsUndefined,
                                                    JsUndefined, JsUndefined),
                                       eng)} :
                Respond("sample_data",
                        IF result.outcome.status = "threw" THEN result.outcome
                        ELSE Returned("Sample Data"),
                        result.requests)
    /\ UNCHANGED <<adapters, handles, tasks, validatorVars, queryVars, serverVars>>

ServerNext ==
    \/ \E config \in ServerConfigs, opening \in SQLiteOpenings : ConnectDatabase(config, opening)
    \/ \E t \in TaskIds, ended \in BOOLEAN, opening \in SQLiteOpenings :
           ConnectDatabaseDisconnected(t, ended, opening)
    \/ \E t \in TaskIds, acquired \in BOOLEAN : ConnectDatabaseConnected(t, acquired)
    \/ \E t \in TaskIds, introspected \in BOOLEAN : ConnectDatabaseIntrospected(t, introspected)
    \/ \E arg \in ToolQueryArguments, plan \in ToolExplainOptions, eng \in ToolEngines :
           ExecuteQuery(arg, plan, eng)
    \/ \E arg \in ToolQueryArguments \ {JsUndefined}, analyze \in AnalyzeArguments :
           ExplainQuery(arg, analyze, FALSE)
    \/ \E arg \in ToolQueryArguments : OptimizeQuery(arg, FALSE)
    \/ \E arg \in ToolQueryArguments : ValidateQuery(arg)
    \/ \E tableName \in ToolTableNames, limit \in ToolLimits, eng \in ToolEngines :
           SampleData(tableName, limit, eng)

SpecServer == ServerInit /\ [][ServerNext]_vars

-----------------------------------------------------------------------------
(* SpecCatalog: the catalog methods of an adapter (getTableStatistics and  *)
(* the introspect* methods) applied to what one engine's catalog holds.     *)

\* String.prototype.split(sep) for a separator of one character
RECURSIVE splitFrom(_, _, _, _)
splitFrom(s, sep, start, i) ==
    IF i > Len(s) THEN <<SubSeq(s, start, Len(s))>>
    ELSE IF Char(s, i) = sep
    THEN <<SubSeq(s, start, i - 1)>> \o splitFrom(s, sep, i + 1, i + 1)
    ELSE splitFrom(s, sep, start, i + 1)

split(s, sep) == splitFrom(s, sep, 1, 1)

\* BaseDatabaseClient.parseTableName
parseTableName(tableName) ==
    LET parts == split(tableName, ".")
    IN  IF Len(parts) = 2 THEN [schema |-> parts[1], table |-> parts[2]]
        ELSE [schema |-> "public", table |-> parts[1]]

\* a table of the engine's catalog, and the catalog: the database the connection
\* was opened on and the tables that exist
CatalogTable(schema, table) == [schema |-> schema, table |-> table]
Catalog(database, tables) == [database |-> database, tables |-> tables]

\* the schema in which the engine looks up a name that carries no qualifier
DefaultSchema(kind, database) ==
    CASE kind = "mysql" -> database
      [] kind = "postgresql" -> "public"
      [] OTHER -> "main"

TableStatistics(tableName) == [tableName |-> tableName]

\* MySQLClient.getTableStatistics
MySQLClient_getTableStatistics(ad, hs, catalog, tableName) ==
    LET parsed == parseTableName(tableName)
        schema == IF parsed.schema = "" THEN "public" ELSE parsed.schema
        sent == <<Req("getTableStatistics",
                      "information_schema.TABLES " \o schema \o " " \o parsed.table)>>
        rows == {t \in catalog.tables : t.schema = schema /\ t.table = parsed.table}
    IN  IF ~Usable(ad, hs) THEN Response(Threw(HandleError(ad)), <<>>)
        ELSE IF rows = {} THEN Response(Threw("Table " \o tableName \o " not found"), sent)
        ELSE Response(Returned(TableStatistics(parsed.table)), sent)

\* SQLiteClient.getTableStatistics: the name goes into the text between double quotes,
\* so the engine takes all of it for the name of a table
SQLiteClient_getTableStatistics(ad, hs, catalog, tableName) ==
    LET sent == <<Req("getTableStatistics", "SELECT COUNT(*) as count FROM \"" \o tableName \o "\"")>>
        found == \E t \in catalog.tables :
                     t.schema = DefaultSchema("sqlite", catalog.database) /\ t.table = tableName
    IN  IF ~ad.connected THEN Response(Threw(NotConnectedMessage), <<>>)
        ELSE IF ~Usable(ad, hs) THEN Response(Threw(HandleError(ad)), <<>>)
        ELSE IF ~found THEN Response(Threw("no such table: " \o tableName), sent)
        ELSE Response(Returned(TableStatistics(tableName)), sent)

\* PostgreSQLClient.getTableStatistics: pg_total_relation_size takes the qualified name
\* for a relation and the engine refuses a name that resolves to none
PostgreSQLClient_getTableStatistics(ad, hs, catalog, tableName) ==
    LET parsed == parseTableName(tableName)
        qualified == parsed.schema \o "." \o parsed.table
        sent == <<Req("getTableStatistics", "pg_stat_user_tables " \o parsed.schema \o " " \o parsed.table),
                  Req("getTableStatistics", "pg_total_relation_size " \o qualified)>>
        found == \E t \in catalog.tables : t.schema = parsed.schema /\ t.table = parsed.table
    IN  IF ~Usable(ad, hs) THEN Response(Threw(HandleError(ad)), <<>>)
        ELSE IF ~found
        THEN Response(Threw("relation \"" \o qualified \o "\" does not exist"), sent)
        ELSE Response(Returned(TableStatistics(parsed.table)), sent)

\* client.getTableStatistics(tableName), dispatched on the class of the client
getTableStatistics(ad, hs, catalog, tableName) ==
    CASE ad.kind = "mysql" -> MySQLClient_getTableStatistics(ad, hs, catalog, tableName)
      [] ad.kind = "postgresql" -> PostgreSQLClient_getTableStatistics(ad, hs, catalog, tableName)
      [] OTHER -> SQLiteClient_getTableStatistics(ad, hs, catalog, tableName)

\* the typeMap literal of mapMySQLType: mysql2 type constants to names
mysqlTypeMap ==
    (0 :> "decimal") @@ (1 :> "tiny") @@ (2 :> "short") @@ (3 :> "long") @@ (4 :> "float")
    @@ (5 :> "double") @@ (7 :> "timestamp") @@ (8 :> "longlong") @@ (9 :> "int24")
    @@ (10 :> "date") @@ (11 :> "time") @@ (12 :> "datetime") @@ (13 :> "year")
    @@ (15 :> "varchar") @@ (16 :> "bit") @@ (245 :> "json") @@ (246 :> "decimal")
    @@ (247 :> "enum") @@ (248 :> "set") @@ (249 :> "tiny_blob") @@ (250 :> "medium_blob")
    @@ (251 :> "long_blob") @@ (252 :> "blob") @@ (253 :> "var_string") @@ (254 :> "string")
    @@ (255 :> "geometry")

\* MySQLClient.mapMySQLType(type: number | undefined)
mapMySQLType(type) ==
    IF type.t = "undefined" THEN "unknown"
    ELSE IF type.v \in DOMAIN mysqlTypeMap THEN mysqlTypeMap[type.v]
    ELSE "unknown"

\* the typeMap literal of mapPostgreSQLType: type OIDs to names
postgresqlTypeMap ==
    (16 :> "boolean") @@ (17 :> "bytea") @@ (20 :> "bigint") @@ (21 :> "smallint")
    @@ (23 :> "integer") @@ (25 :> "text") @@ (700 :> "real") @@ (701 :> "double precision")
    @@ (1042 :> "character") @@ (1043 :> "varchar") @@ (1082 :> "date") @@ (1083 :> "time")
    @@ (1114 :> "timestamp") @@ (1184 :> "timestamptz") @@ (2950 :> "uuid") @@ (3802 :> "jsonb")

\* PostgreSQLClient.mapPostgreSQLType(oid: number)
mapPostgreSQLType(oid) ==
    IF oid.t = "number" /\ oid.v \in DOMAIN postgresqlTypeMap THEN postgresqlTypeMap[oid.v]
    ELSE "unknown"

\* SQLiteClient.normalizeSQLiteType(sqliteType: string)
normalizeSQLiteType(sqliteType) ==
    LET type == toUpperCase(sqliteType.v)
    IN  IF includes(type, "INT") THEN "integer"
        ELSE IF includes(type, "CHAR") \/ includes(type, "TEXT") \/ includes(type, "CLOB")
        THEN "text"
        ELSE IF includes(type, "REAL") \/ includes(type, "FLOA") \/ includes(type, "DOUB")
        THEN "real"
        ELSE IF includes(type, "BLOB") THEN "blob"
        ELSE IF includes(type, "NUMERIC") \/ includes(type, "DECIMAL") THEN "numeric"
        ELSE IF includes(type, "BOOL") THEN "boolean"
        ELSE IF includes(type, "DATE") \/ includes(type, "TIME") THEN "datetime"
        ELSE "blob"

\* the type mapping of the adapter's class
mapType(kind, native) ==
    CASE kind = "mysql" -> mapMySQLType(native)
      [] kind = "postgresql" -> mapPostgreSQLType(native)
      [] OTHER -> normalizeSQLiteType(native)

\* native types as the drivers report them: a FieldPacket type, a dataTypeID, the
\* declared type of PRAGMA table_info
NativeTypes(kind) ==
    CASE kind = "mysql" ->
             {JsUndefined} \cup {JsNumber(n) : n \in (0..17) \cup (244..256)}
      [] kind = "postgresql" ->
             {JsNumber(n) : n \in DOMAIN postgresqlTypeMap \cup {0, 18, 19, 114, 1700, 3803}}
      [] OTHER ->
             {JsString(t) : t \in {"", "INTEGER", "bigint", "VARCHAR(20)", "text", "CLOB", "REAL",
                                   "FLOAT", "DOUBLE PRECISION", "BLOB", "NUMERIC", "DECIMAL(10,2)",
                                   "BOOLEAN", "DATE", "DATETIME", "TIMESTAMP", "JSON", "UUID",
                                   "POINT", "geometry"}}

TypeInputs(kind) == {[request |-> "mapType", native |-> native] : native \in NativeTypes(kind)}

\* a row of the engine's answer to a foreign-key query: the constraint it belongs to
\* (CONSTRAINT_NAME, constraint_name, id), its place in the constraint
\* (ORDINAL_POSITION, seq) and the column pair
ForeignKeyRow(constraint, ordinal, column, referencedTable, referencedColumn) ==
    [constraint |-> constraint, ordinal |-> ordinal, column |-> column,
     referencedTable |-> referencedTable, referencedColumn |-> referencedColumn]

ForeignKeyConstraint(name, referencedTable) ==
    [name |-> name, columns |-> <<>>, referencedTable |-> referencedTable,
     referencedColumns |-> <<>>]

\* the place of the entry called name in a Map kept in insertion order, 0 for none
MapIndex(entries, name) ==
    IF \E k \in 1..Len(entries) : entries[k].name = name
    THEN CHOOSE k \in 1..Len(entries) : entries[k].name = name
    ELSE 0

\* a grouping loop that fills referencedColumns only when it creates the constraint
RECURSIVE groupForeignKeysFirstReferenced(_, _, _, _)
groupForeignKeysFirstReferenced(prefix, rows, i, fkMap) ==
    IF i > Len(rows) THEN fkMap
    ELSE LET row == rows[i]
             name == prefix \o row.constraint
             k == MapIndex(fkMap, name)
             made == [ForeignKeyConstraint(name, row.referencedTable)
                          EXCEPT !.referencedColumns = <<row.referencedColumn>>]
             entries == IF k = 0 THEN Append(fkMap, made) ELSE fkMap
             at == IF k = 0 THEN Len(entries) ELSE k
         IN  groupForeignKeysFirstReferenced(prefix, rows, i + 1,
                 [entries EXCEPT ![at].columns = Append(@, row.column)])

\* the loop "for (const row of rows)" of introspectForeignKeys, from row i on: fkMap is
\* the Map in insertion order, prefix what the adapter puts before the key in the name
RECURSIVE groupForeignKeys(_, _, _, _)
groupForeignKeys(prefix, rows, i, fkMap) ==
    IF i > Len(rows) THEN fkMap
    ELSE LET row == rows[i]
             name == prefix \o row.constraint
             k == MapIndex(fkMap, name)
             entries == IF k = 0
                        THEN Append(fkMap, ForeignKeyConstraint(name, row.referencedTable))
                        ELSE fkMap
             at == IF k = 0 THEN Len(entries) ELSE k
         IN  groupForeignKeys(prefix, rows, i + 1,
                 [entries EXCEPT ![at].columns = Append(@, row.column),
                                 ![at].referencedColumns = Append(@, row.referencedColumn)])

\* MySQLClient.introspectForeignKeys(schema, table), rows being the engine's answer
MySQLClient_introspectForeignKeys(ad, hs, table, rows) ==
    IF ~Usable(ad, hs) THEN Response(Threw(HandleError(ad)), <<>>)
    ELSE Response(Returned(groupForeignKeys("", rows, 1, <<>>)),
                  <<Req("introspectForeignKeys", "information_schema.KEY_COLUMN_USAGE " \o table)>>)

\* SQLiteClient.introspectForeignKeys(table): the key is the id, the name fk_<table>_<id>
SQLiteClient_introspectForeignKeys(ad, hs, table, rows) ==
    IF ~Usable(ad, hs) THEN Response(Threw(HandleError(ad)), <<>>)
    ELSE Response(Returned(groupForeignKeys("fk_" \o table \o "_", rows, 1, <<>>)),
                  <<Req("introspectForeignKeys", "foreign_key_list(\"" \o table \o "\")")>>)

\* PostgreSQLClient.introspectForeignKeys(schema, table)
PostgreSQLClient_introspectForeignKeys(ad, hs, table, rows) ==
    IF ~Usable(ad, hs) THEN Response(Threw(HandleError(ad)), <<>>)
    ELSE Response(Returned(groupForeignKeys("", rows, 1, <<>>)),
                  <<Req("introspectForeignKeys", "information_schema.table_constraints " \o table)>>)

\* introspectForeignKeys of the adapter's class
introspectForeignKeys(ad, hs, table, rows) ==
    CASE ad.kind = "mysql" -> MySQLClient_introspectForeignKeys(ad, hs, table, rows)
      [] ad.kind = "postgresql" -> PostgreSQLClient_introspectForeignKeys(ad, hs, table, rows)
      [] OTHER -> SQLiteClient_introspectForeignKeys(ad, hs, table, rows)

\* the sequences of at most n rows taken from a pool of rows
RowSequences(pool, n) == UNION {[1..k -> pool] : k \in 0..n}

MaxRows == 3

\* rows of two constraints of table orders: one over two columns, one over one
ForeignKeyRowPool ==
    {ForeignKeyRow("a", 1, "tenant_id", "users", "tenant"),
     ForeignKeyRow("a", 2, "user_id", "users", "id"),
     ForeignKeyRow("b", 1, "item_id", "items", "id")}

ForeignKeyInputs ==
    {[request |-> "introspectForeignKeys", table |-> "orders", rows |-> rows] :
        rows \in RowSequences(ForeignKeyRowPool, MaxRows)}

\* a row of information_schema.STATISTICS: the index, SEQ_IN_INDEX and the column
IndexRow(index, ordinal, column, nonUnique, isPrimary) ==
    [index |-> index, ordinal |-> ordinal, column |-> column, nonUnique |-> nonUnique,
     isPrimary |-> isPrimary, collation |-> "A"]

IndexColumn(name, order) == [name |-> name, order |-> order]

IndexSchema(name, columns, isUnique, isPrimary) ==
    [name |-> name, columns |-> columns, isUnique |-> isUnique, isPrimary |-> isPrimary]

\* the loop "for (const row of rows)" of MySQLClient.introspectIndexes, from row i on
RECURSIVE groupIndexes(_, _, _)
groupIndexes(rows, i, indexMap) ==
    IF i > Len(rows) THEN indexMap
    ELSE LET row == rows[i]
             k == MapIndex(indexMap, row.index)
             entries == IF k = 0
                        THEN Append(indexMap, IndexSchema(row.index, <<>>, row.nonUnique = 0,
                                                          row.isPrimary = 1))
                        ELSE indexMap
             at == IF k = 0 THEN Len(entries) ELSE k
         IN  groupIndexes(rows, i + 1,
                 [entries EXCEPT ![at].columns =
                      Append(@, IndexColumn(row.column,
                                            IF row.collation = "A" THEN "ASC" ELSE "DESC"))])

\* MySQLClient.introspectIndexes(schema, table), rows being the engine's answer
MySQLClient_introspectIndexes(ad, hs, table, rows) ==
    IF ~Usable(ad, hs) THEN Response(Threw(HandleError(ad)), <<>>)
    ELSE Response(Returned(groupIndexes(rows, 1, <<>>)),
                  <<Req("introspectIndexes", "information_schema.STATISTICS " \o table)>>)

\* rows of two indexes of table orders: the primary key over two columns, one other
IndexRowPool ==
    {IndexRow("PRIMARY", 1, "tenant_id", 0, 1), IndexRow("PRIMARY", 2, "id", 0, 1),
     IndexRow("idx_item", 1, "item_id", 1, 0)}

IndexInputs(kind) ==
    IF kind # "mysql" THEN {}
    ELSE {[request |-> "introspectIndexes", table |-> "orders", rows |-> rows] :
             rows \in RowSequences(IndexRowPool, MaxRows)}

\* What an engine holds for introspect: the tables of the database in name order, each
\* with its columns in ordinal order (the attribute number of a column is its place)
\* and its indexes, an index being a sequence of attribute numbers in key order.
EngineIndex(name, keys, isUnique, isPrimary) ==
    [name |-> name, keys |-> keys, isUnique |-> isUnique, isPrimary |-> isPrimary]
EngineTable(name, columns, indexes) == [name |-> name, columns |-> columns, indexes |-> indexes]

RECURSIVE Concatenation(_, _)
Concatenation(seqs, i) == IF i > Len(seqs) THEN <<>> ELSE seqs[i] \o Concatenation(seqs, i + 1)

\* the engine's answer to MySQLClient.introspectIndexes' query for one table
MySQLIndexRows(table) ==
    Concatenation([x \in 1..Len(table.indexes) |->
        LET index == table.indexes[x]
        IN  [n \in 1..Len(index.keys) |->
                IndexRow(IF index.isPrimary THEN "PRIMARY" ELSE index.name, n,
                         table.columns[index.keys[n]],
                         IF index.isUnique THEN 0 ELSE 1,
                         IF index.isPrimary THEN 1 ELSE 0)]], 1)

\* SQLiteClient.introspectIndexes: pragma index_list, then pragma index_info per index
SQLiteClient_introspectIndexes(table) ==
    [x \in 1..Len(table.indexes) |->
        LET idx == table.indexes[x]
            indexInfo == [n \in 1..Len(idx.keys) |-> table.columns[idx.keys[n]]]
        IN  IndexSchema(idx.name, [n \in 1..Len(indexInfo) |-> IndexColumn(indexInfo[n], "ASC")],
                        idx.isUnique, idx.isPrimary)]

\* the subquery of PostgreSQLClient.introspectIndexes for column_names: the attname of
\* every pg_attribute row whose attnum is in the index's indkey, by attnum; the join
\* has no condition on the relation the attribute belongs to
PostgreSQLColumnNames(database, index) ==
    LET attnums == {index.keys[n] : n \in 1..Len(index.keys)}
        widest == SetMax({0} \cup {Len(database[t].columns) : t \in 1..Len(database)})
        attnames(attnum) ==
            Concatenation([t \in 1..Len(database) |->
                IF attnum <= Len(database[t].columns) THEN <<database[t].columns[attnum]>>
                ELSE <<>>], 1)
    IN  Concatenation([attnum \in 1..widest |->
            IF attnum \in attnums THEN attnames(attnum) ELSE <<>>], 1)

\* PostgreSQLClient.introspectIndexes: result.rows.map(row => ...)
PostgreSQLClient_introspectIndexes(database, table) ==
    [x \in 1..Len(table.indexes) |->
        LET row == table.indexes[x]
            column_names == PostgreSQLColumnNames(database, row)
        IN  IndexSchema(row.name,
                        [n \in 1..Len(column_names) |-> IndexColumn(column_names[n], "ASC")],
                        row.isUnique, row.isPrimary)]

\* Array.prototype.find(idx => idx.isPrimary): the place of the first one, 0 for none
findPrimary(indexes) ==
    IF \E k \in 1..Len(indexes) : indexes[k].isPrimary
    THEN SetMin({k \in 1..Len(indexes) : indexes[k].isPrimary})
    ELSE 0

\* the TableSchema object that introspectTables builds for one table
TableSchema(name, schema, columns, indexes) ==
    [name |-> name,
     schema |-> schema,
     columns |-> columns,
     primaryKey |->
         IF findPrimary(indexes) # 0
         THEN [t |-> "object",
               name |-> indexes[findPrimary(indexes)].name,
               columns |-> [n \in 1..Len(indexes[findPrimary(indexes)].columns) |->
                               indexes[findPrimary(indexes)].columns[n].name]]
         ELSE JsUndefined,
     indexes |-> indexes]

\* introspectTables of the three classes
MySQLClient_introspectTables(database) ==
    [t \in 1..Len(database) |->
        TableSchema(database[t].name, "shop", database[t].columns,
                    groupIndexes(MySQLIndexRows(database[t]), 1, <<>>))]

SQLiteClient_introspectTables(database) ==
    [t \in 1..Len(database) |->
        TableSchema(database[t].name, "main", database[t].columns,
                    SQLiteClient_introspectIndexes(database[t]))]

PostgreSQLClient_introspectTables(database) ==
    [t \in 1..Len(database) |->
        TableSchema(database[t].name, "public", database[t].columns,
                    PostgreSQLClient_introspectIndexes(database, database[t]))]

\* client.introspect(): the tables of the snapshot
introspect(ad, hs, database) ==
    IF ~ad.connected THEN Response(Threw(NotConnectedMessage), <<>>)
    ELSE IF ~Usable(ad, hs) THEN Response(Threw(HandleError(ad)), <<>>)
    ELSE Response(Returned([tables |->
                      CASE ad.kind = "mysql" -> MySQLClient_introspectTables(database)
                        [] ad.kind = "postgresql" -> PostgreSQLClient_introspectTables(database)
                        [] OTHER -> SQLiteClient_introspectTables(database)]),
                  <<Req("introspect", "tables")>>)

\* databases to introspect
Databases ==
    {<<>>,
     <<EngineTable("users", <<"id", "email">>, <<EngineIndex("users_pkey", <<1>>, TRUE, TRUE)>>)>>,
     <<EngineTable("orders", <<"order_id", "user_id">>,
                   <<EngineIndex("orders_user", <<2>>, FALSE, FALSE),
                     EngineIndex("orders_pkey", <<1>>, TRUE, TRUE)>>),
       EngineTable("users", <<"id", "email">>, <<EngineIndex("users_pkey", <<1>>, TRUE, TRUE)>>)>>,
     <<EngineTable("logs", <<"message">>, <<>>),
       EngineTable("memberships", <<"user_id", "group_id">>,
                   <<EngineIndex("memberships_pkey", <<2, 1>>, TRUE, TRUE)>>)>>,
     <<EngineTable("accounts", <<"email", "id">>,
                   <<EngineIndex("accounts_email", <<1>>, TRUE, FALSE),
                     EngineIndex("accounts_pkey", <<2>>, TRUE, TRUE)>>)>>}

IntrospectInputs == {[request |-> "introspect", database |-> database] : database \in Databases}

StatisticsDatabases == {"shop", "public"}
StatisticsTableNames ==
    {"users", "orders", "shop.users", "public.users", "main.users", "sales.users"}

\* the catalogs of an engine of one kind: no table, users in the schema that needs no
\* qualifier, users in another schema
StatisticsCatalogs(kind) ==
    UNION {{Catalog(database, {}),
            Catalog(database, {CatalogTable(DefaultSchema(kind, database), "users")}),
            Catalog(database, {CatalogTable("sales", "users")})} :
               database \in StatisticsDatabases}

StatisticsInputs(kind) ==
    {[request |-> "getTableStatistics", tableName |-> tableName, catalog |-> catalog] :
        tableName \in StatisticsTableNames, catalog \in StatisticsCatalogs(kind)}

CatalogInit ==
    /\ vInput = JsUndefined
    /\ vOutcome = NoOutcome
    /\ \E config \in Configs :
           /\ adapters = [a \in AdapterIds |-> IF a = 1 THEN NewAdapter(config) ELSE NoAdapter]
           /\ qInput \in StatisticsInputs(config.type) \cup TypeInputs(config.type)
                         \cup ForeignKeyInputs \cup IndexInputs(config.type)
                         \cup IntrospectInputs
    /\ handles = [h \in HandleIds |-> NoHandle]
    /\ tasks = [t \in TaskIds |-> IdleTask]
    /\ last = NoCall
    /\ client = 0
    /\ connections = NoConnections

\* adapter.getTableStatistics(tableName) is called
GetTableStatistics(a) ==
    /\ a \in Constructed
    /\ qInput.request = "getTableStatistics"
    /\ LET r == getTableStatistics(adapters[a], handles, qInput.catalog, qInput.tableName)
           now == Snapshot(adapters, handles, a)
       IN  last' = Call("getTableStatistics", a, <<JsString(qInput.tableName)>>,
                        r.outcome, r.requests, now, now)
    /\ UNCHANGED <<adapters, handles, tasks, validatorVars, queryVars, serverVars>>

\* the adapter maps the native type of a column or of a result field
MapType(a) ==
    /\ a \in Constructed
    /\ qInput.request = "mapType"
    /\ LET now == Snapshot(adapters, handles, a)
       IN  last' = Call("mapType", a, <<qInput.native>>,
                        Returned(mapType(adapters[a].kind, qInput.native)), <<>>, now, now)
    /\ UNCHANGED <<adapters, handles, tasks, validatorVars, queryVars, serverVars>>

\* adapter.introspectForeignKeys(schema, table) is called and the engine answers
IntrospectForeignKeys(a) ==
    /\ a \in Constructed
    /\ qInput.request = "introspectForeignKeys"
    /\ LET r == introspectForeignKeys(adapters[a], handles, qInput.table, qInput.rows)
           now == Snapshot(adapters, handles, a)
       IN  last' = Call("introspectForeignKeys", a, <<qInput.table, qInput.rows>>,
                        r.outcome, r.requests, now, now)
    /\ UNCHANGED <<adapters, handles, tasks, validatorVars, queryVars, serverVars>>

\* a MySQL adapter's introspectIndexes(schema, table) is called and the engine answers
IntrospectIndexes(a) ==
    /\ a \in Constructed
    /\ qInput.request = "introspectIndexes"
    /\ LET r == MySQLClient_introspectIndexes(adapters[a], handles, qInput.table, qInput.rows)
           now == Snapshot(adapters, handles, a)
       IN  last' = Call("introspectIndexes", a, <<qInput.table, qInput.rows>>,
                        r.outcome, r.requests, now, now)
    /\ UNCHANGED <<adapters, handles, tasks, validatorVars, queryVars, serverVars>>

\* adapter.introspect() is called
Introspect(a) ==
    /\ a \in Constructed
    /\ qInput.request = "introspect"
    /\ LET r == introspect(adapters[a], handles, qInput.database)
           now == Snapshot(adapters, handles, a)
       IN  last' = Call("introspect", a, <<>>, r.outcome, r.requests, now, now)
    /\ UNCHANGED <<adapters, handles, tasks, validatorVars, queryVars, serverVars>>

CatalogNext ==
    \/ \E a \in AdapterIds, opening \in SQLiteOpenings : Connect(a, opening)
    \/ \E t \in TaskIds, acquired \in BOOLEAN : ConnectSettle(t, acquired)
    \/ \E a \in AdapterIds : GetTableStatistics(a)
    \/ \E a \in AdapterIds : MapType(a)
    \/ \E a \in AdapterIds : IntrospectForeignKeys(a)
    \/ \E a \in AdapterIds : IntrospectIndexes(a)
    \/ \E a \in AdapterIds : Introspect(a)

SpecCatalog == CatalogInit /\ [][CatalogNext]_vars

-----------------------------------------------------------------------------
(* SpecPlan: explain applied to the plan an engine chose, as the engine     *)
(* reports it: a JSON tree (PostgreSQL), a query_block of nested objects    *)
(* (MySQL), rows of EXPLAIN QUERY PLAN (SQLite).                            *)

\* an operation of a plan: a full scan or an index search of a table, a sort of one
\* input (in place, or tempsort through a temporary table), a nested loop over two
\* inputs
Operation(op, table, rows, inputs) == [op |-> op, table |-> table, rows |-> rows, inputs |-> inputs]

MaxPlanNodes == 4

\* the plans of exactly n operations
RECURSIVE PlansOfSize(_)
PlansOfSize(n) ==
    IF n = 1
    THEN {Operation("scan", "users", 5000, <<>>), Operation("search", "items", 10, <<>>)}
    ELSE {Operation(sort, "", input.rows, <<input>>) :
              sort \in {"sort", "tempsort"}, input \in PlansOfSize(n - 1)}
         \cup UNION {{Operation("loop", "", 20000, <<outer, inner>>) :
                         outer \in PlansOfSize(k), inner \in PlansOfSize(n - 1 - k)} :
                     k \in 1..(n - 2)}

Plans == UNION {PlansOfSize(n) : n \in 1..MaxPlanNodes}

\* how far the row counts found by EXPLAIN ANALYZE are from the planner's estimates
Accuracies == {"accurate", "stale"}
ActualRows(rows, accuracy) == IF accuracy = "stale" THEN rows * 100 ELSE rows

\* the Plan object of EXPLAIN (FORMAT JSON[, ANALYZE]); Plans is <<>> where the
\* engine leaves the property out
RECURSIVE PostgreSQLPlan(_, _, _)
PostgreSQLPlan(operation, analyze, accuracy) ==
    [nodeType |-> CASE operation.op = "scan" -> "Seq Scan"
                    [] operation.op = "search" -> "Index Scan"
                    [] operation.op \in {"sort", "tempsort"} -> "Sort"
                    [] OTHER -> "Nested Loop",
     relationName |-> IF operation.table = "" THEN JsUndefined ELSE JsString(operation.table),
     planRows |-> operation.rows,
     actualRows |-> IF analyze THEN JsNumber(ActualRows(operation.rows, accuracy)) ELSE JsUndefined,
     Plans |-> [k \in 1..Len(operation.inputs) |->
                   PostgreSQLPlan(operation.inputs[k], analyze, accuracy)]]

\* PostgreSQLClient.parseExplainNode
RECURSIVE parseExplainNode(_)
parseExplainNode(node) ==
    [nodeType |-> node.nodeType,
     relationName |-> node.relationName,
     planRows |-> node.planRows,
     actualRows |-> node.actualRows,
     children |-> [k \in 1..Len(node.Plans) |-> parseExplainNode(node.Plans[k])]]

\* what generateRecommendations pushes for the node itself
PostgreSQLFindings(plan) ==
    (IF plan.nodeType = "Seq Scan" /\ plan.planRows > 1000
     THEN <<"Consider adding an index on " \o JsToString(plan.relationName)
                \o " to avoid sequential scan">>
     ELSE <<>>)
    \o (IF plan.nodeType = "Nested Loop" /\ plan.planRows > 10000
        THEN <<"Nested loop with high row count detected. Consider using a hash join instead.">>
        ELSE <<>>)

\* Array.prototype.push of findings that drops those already in the list
pushNew(recommendations, findings) ==
    recommendations \o SelectSeq(findings, LAMBDA f : \A k \in 1..Len(recommendations) :
                                                          recommendations[k] # f)

RECURSIVE pushAllNew(_, _, _)
pushAllNew(recommendations, lists, i) ==
    IF i > Len(lists) THEN recommendations
    ELSE pushAllNew(pushNew(recommendations, lists[i]), lists, i + 1)

\* generateRecommendations that keeps one copy of a finding
RECURSIVE generateRecommendationsOnce(_)
generateRecommendationsOnce(plan) ==
    pushAllNew(PostgreSQLFindings(plan),
               [k \in 1..Len(plan.Plans) |-> generateRecommendationsOnce(plan.Plans[k])], 1)

\* PostgreSQLClient.generateRecommendations
RECURSIVE generateRecommendations(_)
generateRecommendations(plan) ==
    PostgreSQLFindings(plan)
    \o Concatenation([k \in 1..Len(plan.Plans) |-> generateRecommendations(plan.Plans[k])], 1)

ExplainPlan(nodes, recommendations) == [nodes |-> nodes, recommendations |-> recommendations]

\* PostgreSQLClient.explain once the engine has answered with plan
PostgreSQLClient_explainPlan(plan) ==
    ExplainPlan(<<parseExplainNode(plan)>>, generateRecommendations(plan))

\* an object of MySQL's EXPLAIN FORMAT=JSON: the properties checkNode reads and, in
\* key order, the objects found among its values (the items of nested_loop, the
\* ordering_operation object).  The table object is among the values too; it has no
\* table property and nothing below it, so that checkNode passes it by.
MySQLObject(table, ordering_operation, using_temporary_table, values) ==
    [table |-> table, ordering_operation |-> ordering_operation,
     using_temporary_table |-> using_temporary_table, values |-> values]

MySQLTable(table_name, access_type) ==
    [t |-> "object", table_name |-> table_name, access_type |-> access_type]

\* the query_block the engine reports for a plan: ordering_operation holds the sorted
\* input (its table or its nested_loop) and, where the sort goes through a temporary
\* table, using_temporary_table beside it; nested_loop holds the inputs of the join
RECURSIVE MySQLQueryBlock(_)
MySQLQueryBlock(operation) ==
    CASE operation.op = "scan" ->
             MySQLObject(MySQLTable(operation.table, "ALL"), JsUndefined, JsUndefined, <<>>)
      [] operation.op = "search" ->
             MySQLObject(MySQLTable(operation.table, "ref"), JsUndefined, JsUndefined, <<>>)
      [] operation.op = "sort" ->
             MySQLObject(JsUndefined, JsBoolean(TRUE), JsUndefined,
                         <<MySQLQueryBlock(operation.inputs[1])>>)
      [] operation.op = "tempsort" ->
             MySQLObject(JsUndefined, JsBoolean(TRUE), JsUndefined,
                         <<[MySQLQueryBlock(operation.inputs[1])
                               EXCEPT !.using_temporary_table = JsBoolean(TRUE)]>>)
      [] OTHER ->
             MySQLObject(JsUndefined, JsUndefined, JsUndefined,
                         [k \in 1..Len(operation.inputs) |-> MySQLQueryBlock(operation.inputs[k])])

\* what checkNode pushes for the node itself
MySQLFindings(node) ==
    IF Falsy(node.table) THEN <<>>
    ELSE (IF node.table.access_type = "ALL"
          THEN <<"Full table scan detected on " \o node.table.table_name
                     \o ". Consider adding an index.">>
          ELSE <<>>)
         \o (IF ~Falsy(node.ordering_operation)
             THEN <<"Using filesort. Consider adding an index to match the ORDER BY clause.">>
             ELSE <<>>)
         \o (IF ~Falsy(node.using_temporary_table)
             THEN <<"Using temporary table. This may impact performance for large result sets.">>
             ELSE <<>>)

\* checkNode of MySQLClient.generateMySQLRecommendations: what it adds to the list
RECURSIVE checkNode(_)
checkNode(node) ==
    MySQLFindings(node)
    \o Concatenation([k \in 1..Len(node.values) |-> checkNode(node.values[k])], 1)

generateMySQLRecommendations(queryBlock) == checkNode(queryBlock)

\* MySQLClient.explain once the engine has answered: EXPLAIN ANALYZE comes as text
MySQLClient_explainPlan(queryBlock, analyze) ==
    IF ~Falsy(analyze) THEN ExplainPlan(<<>>, <<>>)
    ELSE ExplainPlan(<<>>, generateMySQLRecommendations(queryBlock))

\* the rows of EXPLAIN QUERY PLAN: one per scan, search and sort, outer input first;
\* releases before 3.36 write SCAN TABLE and SEARCH TABLE
RECURSIVE SQLiteDetails(_, _)
SQLiteDetails(operation, legacy) ==
    CASE operation.op = "scan" ->
             <<(IF legacy THEN "SCAN TABLE " ELSE "SCAN ") \o operation.table>>
      [] operation.op = "search" ->
             <<(IF legacy THEN "SEARCH TABLE " ELSE "SEARCH ") \o operation.table
                   \o " USING INDEX idx (id=?)">>
      [] operation.op \in {"sort", "tempsort"} ->
             SQLiteDetails(operation.inputs[1], legacy) \o <<"USE TEMP B-TREE FOR ORDER BY">>
      [] OTHER ->
             Concatenation([k \in 1..Len(operation.inputs) |->
                               SQLiteDetails(operation.inputs[k], legacy)], 1)

SQLiteRows(operation, legacy) ==
    LET details == SQLiteDetails(operation, legacy)
    IN  [k \in 1..Len(details) |-> [id |-> k + 1, parent |-> 0, detail |-> details[k]]]

scanTablePattern == <<Lit("SCAN TABLE "), Plus("w")>>

\* what the loop of SQLiteClient.explain pushes for one row
SQLiteFindings(row) ==
    (IF includes(row.detail, "SCAN TABLE") /\ RegexTest(scanTablePattern, row.detail)
     THEN LET start == SetMin(MatchStarts(scanTablePattern, row.detail))
              end == SetMax(MatchEnds(scanTablePattern, 1, row.detail, start))
          IN  <<"Full table scan detected on "
                    \o SubSeq(row.detail, start + Len("SCAN TABLE "), end - 1)
                    \o ". Consider adding an index.">>
     ELSE <<>>)
    \o (IF includes(row.detail, "USING TEMP B-TREE")
        THEN <<"Using temporary B-tree for sorting. Consider adding an index to match ORDER BY.">>
        ELSE <<>>)

\* SQLiteClient.explain once the engine has answered with rows
SQLiteClient_explainPlan(rows) ==
    ExplainPlan(<<>>, Concatenation([k \in 1..Len(rows) |-> SQLiteFindings(rows[k])], 1))

\* what the engine of the adapter reports for the plan
EngineReport(kind, plan, analyze, accuracy, legacy) ==
    CASE kind = "mysql" -> MySQLQueryBlock(plan)
      [] kind = "postgresql" -> PostgreSQLPlan(plan, ~Falsy(analyze), accuracy)
      [] OTHER -> SQLiteRows(plan, legacy)

\* the ExplainPlan that explain returns for the engine's report
explainPlan(kind, report, analyze) ==
    CASE kind = "mysql" -> MySQLClient_explainPlan(report, analyze)
      [] kind = "postgresql" -> PostgreSQLClient_explainPlan(report)
      [] OTHER -> SQLiteClient_explainPlan(report)

PlanInputs ==
    {[request |-> "explain", text |-> "SELECT * FROM users", analyze |-> analyze, plan |-> plan,
      accuracy |-> accuracy, legacy |-> legacy] :
        analyze \in {JsUndefined, JsBoolean(TRUE)}, plan \in Plans, accuracy \in Accuracies,
        legacy \in BOOLEAN}

\* the inputs that differ in what the engine of the kind reports
PlanInputsOf(kind) ==
    {input \in PlanInputs :
        /\ kind # "sqlite" => ~input.legacy
        /\ (kind # "postgresql" \/ Falsy(input.analyze)) => input.accuracy = "accurate"}

PlanInit ==
    /\ vInput = JsUndefined
    /\ vOutcome = NoOutcome
    /\ \E config \in Configs :
           /\ adapters = [a \in AdapterIds |-> IF a = 1 THEN NewAdapter(config) ELSE NoAdapter]
           /\ qInput \in PlanInputsOf(config.type)
    /\ handles = [h \in HandleIds |-> NoHandle]
    /\ tasks = [t \in TaskIds |-> IdleTask]
    /\ last = NoCall
    /\ client = 0
    /\ connections = NoConnections

\* adapter.explain(query, analyze) is called and the engine reports its plan
ExplainPlanned(a) ==
    /\ a \in Constructed
    /\ \E r \in {explain(adapters[a], handles, qInput.text, qInput.analyze, FALSE)} :
           LET kind == adapters[a].kind
               report == EngineReport(kind, qInput.plan, qInput.analyze, qInput.accuracy,
                                      qInput.legacy)
               now == Snapshot(adapters, handles, a)
           IN  last' = Call("explain", a, <<JsString(qInput.text), qInput.analyze>>,
                            IF r.outcome.status = "threw" THEN r.outcome
                            ELSE Returned(explainPlan(kind, report, qInput.analyze)),
                            r.requests, now, now)
    /\ UNCHANGED <<adapters, handles, tasks, validatorVars, queryVars, serverVars>>

PlanNext ==
    \/ \E a \in AdapterIds, opening \in SQLiteOpenings : Connect(a, opening)
    \/ \E t \in TaskIds, acquired \in BOOLEAN : ConnectSettle(t, acquired)
    \/ \E a \in AdapterIds : ExplainPlanned(a)

SpecPlan == PlanInit /\ [][PlanNext]_vars

-----------------------------------------------------------------------------
(* SpecSwitch: connect_database requests alone.  handleRequest is called   *)
(* for each line and not awaited, so a request starts while another is at   *)
(* one of its awaits.                                                       *)

\* the connect_database requests that can be in flight together, and the clients the
\* server constructs in a run (each creates at most one pool or database handle)
MaxRequests == 2
MaxClients == 3

SwitchInit ==
    /\ vInput = JsUndefined
    /\ vOutcome = NoOutcome
    /\ adapters = [a \in 1..MaxClients |-> NoAdapter]
    /\ handles = [h \in 1..MaxClients |-> NoHandle]
    /\ tasks = [t \in 1..MaxRequests |-> IdleTask]
    /\ last = NoCall
    /\ qInput = NoInput
    /\ client = 0
    /\ connections = NoConnections

\* the configurations of the requests: an engine reached through a pool, whose connect
\* and disconnect await, and SQLite, whose connect and disconnect run to their end
SwitchConfigs == {config \in Configs : config.type \in {"postgresql", "sqlite"} /\ config.filename}
SwitchOpenings == {"opened"}

SwitchNext ==
    \/ \E config \in SwitchConfigs, opening \in SwitchOpenings : ConnectDatabase(config, opening)
    \/ \E t \in DOMAIN tasks, ended \in BOOLEAN, opening \in SwitchOpenings :
           ConnectDatabaseDisconnected(t, ended, opening)
    \/ \E t \in DOMAIN tasks, acquired \in BOOLEAN : ConnectDatabaseConnected(t, acquired)
    \/ \E t \in DOMAIN tasks, introspected \in BOOLEAN : ConnectDatabaseIntrospected(t, introspected)

SpecSwitch == SwitchInit /\ [][SwitchNext]_vars

-----------------------------------------------------------------------------
(* SpecAnalysis: validate applied to SELECT statements that are built from  *)
(* their constructs, so that what the text holds is known.                  *)

\* the most JOINs and the most ORDER BY columns of a statement
MaxJoins == 2
MaxOrderColumns == 2

\* a SELECT statement by its constructs: the number of tables listed in FROM, of
\* JOINs, of subqueries and of UNIONs, the number of ORDER BY columns, and whether
\* it has DISTINCT, a window function, a WHERE, a GROUP BY and a HAVING
SelectShapes ==
    {[distinct |-> distinct, window |-> window, tables |-> tables, joins |-> joins,
      where |-> where, subqueries |-> subqueries, groupBy |-> groupBy, having |-> having,
      unions |-> unions, orderColumns |-> orderColumns] :
        distinct \in BOOLEAN, window \in BOOLEAN, tables \in 1..2, joins \in 0..MaxJoins,
        where \in BOOLEAN, subqueries \in 0..1, groupBy \in BOOLEAN, having \in BOOLEAN,
        unions \in 0..1, orderColumns \in 0..MaxOrderColumns}

\* a statement of SQL: a subquery stands in a WHERE, a HAVING follows a GROUP BY
WellFormed(shape) ==
    /\ shape.subqueries > 0 => shape.where
    /\ shape.having => shape.groupBy

RECURSIVE Repeat(_, _)
Repeat(s, n) == IF n = 0 THEN "" ELSE s \o Repeat(s, n - 1)

\* the text of the statement as a caller writes it
SelectText(shape) ==
    "SELECT " \o (IF shape.distinct THEN "DISTINCT " ELSE "") \o "name"
    \o (IF shape.window THEN ", SUM(total) OVER (PARTITION BY name)" ELSE "")
    \o " FROM users" \o (IF shape.tables = 2 THEN ", orders" ELSE "")
    \o Repeat(" JOIN items ON items.user_id = users.id", shape.joins)
    \o (IF ~shape.where THEN ""
        ELSE IF shape.subqueries > 0 THEN " WHERE id IN (SELECT user_id FROM payments)"
        ELSE " WHERE id = 1")
    \o (IF shape.groupBy THEN " GROUP BY name" ELSE "")
    \o (IF shape.having THEN " HAVING COUNT(*) > 1" ELSE "")
    \o Repeat(" UNION SELECT name FROM archive", shape.unions)
    \o (CASE shape.orderColumns = 0 -> ""
          [] shape.orderColumns = 1 -> " ORDER BY name"
          [] OTHER -> " ORDER BY name" \o Repeat(", id", shape.orderColumns - 1))

AnalysisInit ==
    /\ \E shape \in {s \in SelectShapes : WellFormed(s)} :
           /\ qInput = [request |-> "validate", shape |-> shape]
           /\ vInput = JsString(SelectText(shape))
    /\ vOutcome = NoOutcome
    /\ IdleAdapters
    /\ client = 0
    /\ connections = NoConnections

AnalysisNext == Validate

SpecAnalysis == AnalysisInit /\ [][AnalysisNext]_vars

-----------------------------------------------------------------------------
(* SpecPool: query calls on a MySQL or PostgreSQL adapter, followed through *)
(* the connections of its pool.  A call takes a connection, sets the        *)
(* timeout, runs the statement and, for options.explain, calls explain,     *)
(* which goes to the pool for a connection of its own; calls overlap at     *)
(* their awaits.                                                            *)

\* config.poolMax and the query calls in flight together
MaxPoolSize == 2
MaxQueries == 2

\* the session of a fresh connection has no statement timeout
NoTimeout == 0

\* a connection of the pool: checked out or idle, the statement timeout of its
\* session, and whether that value is a timeout option some call was given
Connection(held, timeout, given) == [held |-> held, timeout |-> timeout, given |-> given]

PoolEvent(event, c) == [event |-> event, connection |-> c]

\* a query call at one of its awaits: the connection it got from getConnection() or
\* pool.connect() (0 before), the connection pool.query took for its explain, and the
\* connections it took and released so far
QueryTask(phase, a, request, conn, other, log) ==
    [op |-> "query", phase |-> phase, adapter |-> a, request |-> request, conn |-> conn,
     other |-> other, log |-> log]

FreeConnections == {c \in DOMAIN connections : ~connections[c].held}

\* a release that leaves the connection checked out
releaseNothing(conns, c) == conns

\* conn.release(), client.release()
release(conns, c) == [conns EXCEPT ![c].held = FALSE]

PoolRequests ==
    {QueryRequest("SELECT * FROM users", JsUndefined, timeout, plan, JsUndefined) :
        timeout \in {JsUndefined, JsNumber(5000)}, plan \in {JsUndefined, JsBoolean(TRUE)}}

PoolInit ==
    /\ vInput = JsUndefined
    /\ vOutcome = NoOutcome
    /\ \E config \in {c \in Configs : c.type \in {"mysql", "postgresql"}} :
           adapters = [a \in AdapterIds |-> IF a = 1 THEN NewAdapter(config) ELSE NoAdapter]
    /\ handles = [h \in HandleIds |-> NoHandle]
    /\ tasks = [t \in 1..MaxQueries |-> IdleTask]
    /\ last = NoCall
    /\ \E poolMax \in 1..MaxPoolSize :
           /\ qInput = [request |-> "pool", poolMax |-> poolMax]
           /\ connections = [c \in 1..poolMax |-> Connection(FALSE, NoTimeout, FALSE)]
    /\ client = 0

\* the call of the task returns or throws
QueryReturns(t, outcome, log) ==
    /\ last' = Call("query", tasks[t].adapter, <<tasks[t].request>>, outcome, log,
                    Snapshot(adapters, handles, tasks[t].adapter),
                    Snapshot(adapters, handles, tasks[t].adapter))
    /\ tasks' = [tasks EXCEPT ![t] = IdleTask]

\* adapter.query(request) is called: up to the await of the connection
QueryStart(a, request) ==
    /\ a \in Constructed
    /\ IF ~adapters[a].connected
       THEN /\ last' = Call("query", a, <<request>>, Threw(NotConnectedMessage), <<>>,
                            Snapshot(adapters, handles, a), Snapshot(adapters, handles, a))
            /\ UNCHANGED tasks
       ELSE /\ FreeTasks # {}
            /\ tasks' = [tasks EXCEPT ![SetMin(FreeTasks)] =
                            QueryTask("acquiring", a, request, 0, 0, <<>>)]
            /\ UNCHANGED last
    /\ UNCHANGED <<adapters, handles, connections, qInput, validatorVars, serverVars>>

\* the pool hands an idle connection to the call; MySQLClient.query sets the timeout
\* only if the options hold one
QueryAcquire(t, c) ==
    /\ tasks[t].op = "query" /\ tasks[t].phase = "acquiring"
    /\ c \in FreeConnections
    /\ connections' = [connections EXCEPT ![c].held = TRUE]
    /\ tasks' = [tasks EXCEPT ![t].conn = c,
                              ![t].log = @ \o <<PoolEvent("acquire", c)>>,
                              ![t].phase =
                                  IF adapters[tasks[t].adapter].kind = "mysql"
                                     /\ tasks[t].request.options.timeout.t = "undefined"
                                  THEN "running" ELSE "setting"]
    /\ UNCHANGED <<adapters, handles, last, qInput, validatorVars, serverVars>>

\* SET SESSION MAX_EXECUTION_TIME / SET statement_timeout settles
QuerySetTimeout(t, ok) ==
    /\ tasks[t].op = "query" /\ tasks[t].phase = "setting"
    /\ LET c == tasks[t].conn
           timeout == tasks[t].request.options.timeout
       IN  IF ok
           THEN /\ connections' = [connections EXCEPT
                                      ![c].timeout = normalizeTimeout(timeout),
                                      ![c].given = (timeout.t # "undefined")]
                /\ tasks' = [tasks EXCEPT ![t].phase = "running"]
                /\ UNCHANGED last
           ELSE /\ connections' = release(connections, c)
                /\ QueryReturns(t, Threw("Query execution failed: " \o EngineError),
                                tasks[t].log \o <<PoolEvent("release", c)>>)
    /\ UNCHANGED <<adapters, handles, qInput, validatorVars, serverVars>>

\* the statement settles; with options.explain the call goes on to this.explain(),
\* whose pool.query asks the pool for a connection
QueryRun(t, ok) ==
    /\ tasks[t].op = "query" /\ tasks[t].phase = "running"
    /\ LET c == tasks[t].conn
       IN  IF ok /\ ~Falsy(tasks[t].request.options.explain)
           THEN /\ tasks' = [tasks EXCEPT ![t].phase = "explaining"]
                /\ UNCHANGED <<last, connections>>
           ELSE /\ connections' = release(connections, c)
                /\ QueryReturns(t, IF ok THEN Returned("result")
                                   ELSE Threw("Query execution failed: " \o EngineError),
                                tasks[t].log \o <<PoolEvent("release", c)>>)
    /\ UNCHANGED <<adapters, handles, qInput, validatorVars, serverVars>>

\* pool.query of explain gets an idle connection and sends the EXPLAIN on it
QueryExplainAcquire(t, c) ==
    /\ tasks[t].op = "query" /\ tasks[t].phase = "explaining"
    /\ c \in FreeConnections
    /\ connections' = [connections EXCEPT ![c].held = TRUE]
    /\ tasks' = [tasks EXCEPT ![t].other = c, ![t].phase = "explained"]
    /\ UNCHANGED <<adapters, handles, last, qInput, validatorVars, serverVars>>

\* the EXPLAIN settles: pool.query gives its connection back, explain returns or
\* throws, and the finally of query releases the call's connection
QueryExplainSettle(t, ok) ==
    /\ tasks[t].op = "query" /\ tasks[t].phase = "explained"
    /\ LET a == tasks[t].adapter
           plan == explain(adapters[a], handles, tasks[t].request.query,
                           tasks[t].request.options.analyze, ~ok)
       IN  /\ connections' = release([connections EXCEPT ![tasks[t].other].held = FALSE],
                                     tasks[t].conn)
           /\ QueryReturns(t, IF plan.outcome.status = "threw"
                              THEN Threw("Query execution failed: " \o plan.outcome.message)
                              ELSE Returned("result with plan"),
                           tasks[t].log \o <<PoolEvent("release", tasks[t].conn)>>)
    /\ UNCHANGED <<adapters, handles, qInput, validatorVars, serverVars>>

PoolNext ==
    \/ \E a \in AdapterIds, opening \in {"opened"} : Connect(a, opening)
    \/ \E t \in DOMAIN tasks : ConnectSettle(t, TRUE)
    \/ \E a \in AdapterIds, request \in PoolRequests : QueryStart(a, request)
    \/ \E t \in DOMAIN tasks, c \in DOMAIN connections : QueryAcquire(t, c)
    \/ \E t \in DOMAIN tasks, ok \in BOOLEAN : QuerySetTimeout(t, ok)
    \/ \E t \in DOMAIN tasks, ok \in BOOLEAN : QueryRun(t, ok)
    \/ \E t \in DOMAIN tasks, c \in DOMAIN connections : QueryExplainAcquire(t, c)
    \/ \E t \in DOMAIN tasks, ok \in BOOLEAN : QueryExplainSettle(t, ok)

SpecPool == PoolInit /\ [][PoolNext]_vars

-----------------------------------------------------------------------------
(* Properties of QueryValidator.validate, checked under SpecValidator.      *)

Verdict == vOutcome.value
QueryText == vInput.v
ValidateReturned == vOutcome.status = "returned"

CountCode(findings, code) ==
    Cardinality({k \in DOMAIN findings : findings[k].code = code})

\* the catalog patterns that match the text as given, ignoring case
MatchedDangerousPatterns(text) ==
    {k \in DOMAIN dangerousPatterns : RegexTest(dangerousPatterns[k].pattern, toUpperCase(text))}

\* C1: validate applied to a DELETE statement without WHERE clause, the documented
\* example "DELETE FROM users", returns isValid = false with exactly one error
\* finding, whose code is DELETE_WITHOUT_WHERE and whose severity is critical.
C1_DeleteWithoutWhereSingleError ==
    (ValidateReturned /\ QueryText = "DELETE FROM users") =>
        /\ ~Verdict.isValid
        /\ Len(Verdict.errors) = 1
        /\ Verdict.errors[1].code = "DELETE_WITHOUT_WHERE"
        /\ Verdict.errors[1].severity = "critical"

LeadingKeywordIn(text, keywords) ==
    \E w \in keywords : startsWith(toUpperCase(trim(text)), w)

IsMutationText(text) ==
    LeadingKeywordIn(text, {"INSERT", "UPDATE", "DELETE", "CREATE", "ALTER", "DROP", "TRUNCATE"})

HasBlockingFinding(verdict) ==
    LET findings == verdict.errors \o verdict.warnings
    IN  \E k \in DOMAIN findings :
            \/ findings[k].code = "DANGEROUS_OPERATION"
            \/ findings[k].severity \in {"critical", "error"}

\* C5: requiresConfirmation is true exactly when the statement is a mutation
\* (INSERT, UPDATE, DELETE or DDL) or the verdict has a dangerous, critical or
\* error-severity finding; a non-mutating statement with no error finding never
\* requires confirmation.
C5_RequiresConfirmation ==
    ValidateReturned =>
        /\ Verdict.metadata.requiresConfirmation
               <=> (IsMutationText(QueryText) \/ HasBlockingFinding(Verdict))
        /\ (~IsMutationText(QueryText) /\ Verdict.errors = <<>>)
               => ~Verdict.metadata.requiresConfirmation

C5_Witness ==
    /\ ValidateReturned
    /\ ~IsMutationText(QueryText)
    /\ HasBlockingFinding(Verdict)
    /\ Verdict.metadata.requiresConfirmation

\* the keyword WHERE occurs in the text as a word of its own
HasWhereKeyword(text) == RegexTest(<<WB, Lit("WHERE"), WB>>, toUpperCase(text))

UpdateWithoutWhereFindings(verdict) ==
    /\ CountCode(verdict.warnings, "UPDATE_WITHOUT_WHERE") = 1
    /\ CountCode(verdict.errors, "UPDATE_WITHOUT_WHERE") = 0
    /\ \A k \in DOMAIN verdict.warnings :
           verdict.warnings[k].code = "UPDATE_WITHOUT_WHERE"
               => verdict.warnings[k].severity = "warning"

\* C6: validate applied to an UPDATE statement that has no WHERE clause
\* returns isValid = true and exactly one UPDATE_WITHOUT_WHERE finding, which is a
\* warning and never an error.
C6_UpdateWithoutWhereIsValid ==
    (ValidateReturned /\ LeadingKeywordIn(QueryText, {"UPDATE"}) /\ ~HasWhereKeyword(QueryText)) =>
        /\ Verdict.isValid
        /\ UpdateWithoutWhereFindings(Verdict)

-----------------------------------------------------------------------------
(* Properties of the adapters, checked under SpecAdapter and SpecQuery.     *)

LastReturned == last.outcome.status = "returned"

\* C3 as stated: for any value N given as options.maxRows, the rows list a query
\* call returns has length at most N, even when the engine produced more rows.
C3_RowsAtMostMaxRows ==
    (last.op = "query" /\ LastReturned /\ last.args[1].options.maxRows.t = "number") =>
        Len(last.outcome.value.rows) <= last.args[1].options.maxRows.v

\* C3 amended: the rows list is at most N long when N is between 1 and the absolute
\* maximum of 10000, at most 10000 long when N is larger, and at most the default of
\* 1000 long when maxRows is missing, zero or negative.
C3_RowsAtMostNormalizedMaxRows ==
    (last.op = "query" /\ LastReturned) =>
        LET N == last.args[1].options.maxRows
            rows == last.outcome.value.rows
        IN  /\ (N.t = "number" /\ N.v >= 1 /\ N.v <= absoluteMaxRows) => Len(rows) <= N.v
            /\ (N.t = "number" /\ N.v > absoluteMaxRows) => Len(rows) <= absoluteMaxRows
            /\ (N.t = "undefined" \/ (N.t = "number" /\ N.v <= 0)) => Len(rows) <= defaultMaxRows

C3_Witness ==
    /\ last.op = "query" /\ LastReturned
    /\ last.args[1].options.maxRows = JsNumber(2)
    /\ last.outcome.value.rowCount > 2
    /\ Len(last.outcome.value.rows) = 2

\* C8: connect() called on an adapter that is already connected returns without
\* creating a pool or database handle, and leaves the adapter connected with the
\* pool or handle it had.
C8_ConnectIdempotent ==
    (last.op = "connect" /\ last.before.connected) =>
        /\ last.outcome = Returned("void")
        /\ last.after = last.before

C8_Witness ==
    /\ last.op = "connect" /\ last.before.connected
    /\ last.before.handle # 0

\* C9 as stated: disconnect() called on an adapter that is not connected does not
\* throw and changes nothing, and after any disconnect() that returns the adapter
\* is not connected and holds no pool or database handle.
C9_DisconnectChangesNothing ==
    last.op = "disconnect" =>
        /\ ~last.before.connected => (LastReturned /\ last.after = last.before)
        /\ LastReturned => (~last.after.connected /\ last.after.handle = 0)

\* C9 amended: disconnect() called on an adapter that is not connected and holds no
\* pool or handle returns and changes nothing; a pool or handle the adapter held when
\* disconnect() was called is closed, connected or not; and after any disconnect()
\* that returns the adapter is not connected and holds no pool or database handle.
C9_DisconnectReleases ==
    last.op = "disconnect" =>
        /\ (~last.before.connected /\ last.before.handle = 0)
               => (LastReturned /\ last.after = last.before)
        /\ last.before.handle # 0 => last.after.handles[last.before.handle].state = "closed"
        /\ LastReturned => (~last.after.connected /\ last.after.handle = 0)

C9_Witness ==
    /\ last.op = "disconnect" /\ LastReturned
    /\ ~last.before.connected /\ last.before.handle # 0
    /\ last.after.handle = 0

PlanOnlyExplain(kind, text) ==
    CASE kind = "mysql" -> "EXPLAIN FORMAT=JSON " \o text
      [] kind = "postgresql" -> "EXPLAIN (FORMAT JSON) " \o text
      [] OTHER -> "EXPLAIN QUERY PLAN " \o text

\* a request that makes the engine run the statement: the statement itself, or an
\* EXPLAIN of it with ANALYZE
RunsStatement(sql, text) ==
    sql \in {text, "EXPLAIN ANALYZE " \o text, "EXPLAIN (FORMAT JSON, ANALYZE) " \o text}

\* C10: explain(text, analyze) with analyze false or omitted sends the engine nothing
\* but one plan-only EXPLAIN of the text, and a request that runs the statement is
\* sent only when analyze is true.
C10_ExplainPlanOnly ==
    last.op = "explain" =>
        LET text == last.args[1].v
            analyze == last.args[2]
            kind == adapters[last.adapter].kind
        IN  /\ Len(last.requests) <= 1
            /\ \A k \in DOMAIN last.requests :
                   /\ analyze # JsBoolean(TRUE) => last.requests[k].sql = PlanOnlyExplain(kind, text)
                   /\ RunsStatement(last.requests[k].sql, text) => analyze = JsBoolean(TRUE)

C10_Witness ==
    /\ last.op = "explain" /\ LastReturned
    /\ last.args[2] = JsUndefined
    /\ Len(last.requests) = 1

-----------------------------------------------------------------------------
(* Properties of the server's tools, checked under SpecServer.              *)

GatedTools == {"execute_query", "explain_query", "optimize_query", "sample_data"}

AnalyzePrefixes == {"EXPLAIN ANALYZE ", "EXPLAIN (FORMAT JSON, ANALYZE) "}
PlanOnlyPrefixes == {"EXPLAIN FORMAT=JSON ", "EXPLAIN (FORMAT JSON) ", "EXPLAIN QUERY PLAN "}

\* the request makes the engine run a statement: it is neither a plan-only EXPLAIN nor
\* a session setting
RunsAStatement(sql) ==
    /\ \A prefix \in PlanOnlyPrefixes : ~startsWith(sql, prefix)
    /\ ~startsWith(sql, "SET ")

\* the statement the engine runs for such a request
StatementRun(sql) ==
    IF \E prefix \in AnalyzePrefixes : startsWith(sql, prefix)
    THEN LET prefix == CHOOSE pre \in AnalyzePrefixes : startsWith(sql, pre)
         IN  SubSeq(sql, Len(prefix) + 1, Len(sql))
    ELSE sql

\* C2: whatever tool calls are made (execute_query, explain_query with or without
\* analyze, optimize_query, sample_data), a statement for which validate returns
\* isValid = false is never sent to the engine in a form that executes it.
C2_SafetyAnalyzerGatesExecution ==
    last.op \in GatedTools =>
        \A k \in DOMAIN last.requests :
            RunsAStatement(last.requests[k].sql)
                => validate(StatementRun(last.requests[k].sql)).isValid

\* C7: QueryValidator.validate never throws: for every input it is given, also through
\* the validate_query and execute_query tools, it returns a verdict.
C7_ValidatorNeverThrows ==
    vOutcome.status # "threw"

-----------------------------------------------------------------------------
(* Properties of the catalog methods, checked under SpecCatalog.           *)

\* the named table exists: the engine of the adapter, resolving the name as its SQL
\* does, finds a table
TableExists(kind, catalog, tableName) ==
    LET parts == split(tableName, ".")
        named == IF Len(parts) = 1
                 THEN CatalogTable(DefaultSchema(kind, catalog.database), parts[1])
                 ELSE CatalogTable(parts[1], parts[2])
    IN  named \in catalog.tables

StatisticsCall == last.op = "getTableStatistics" /\ last.before.connected

\* C11: on every adapter, getTableStatistics(name) on a connected adapter fails if and
\* only if the named table does not exist; an existing table, named with or without a
\* schema qualifier, yields its metrics.
C11_StatisticsFailIffMissing ==
    StatisticsCall =>
        (last.outcome.status = "threw"
            <=> ~TableExists(adapters[last.adapter].kind, qInput.catalog, qInput.tableName))

\* the mapping recognizes the native type: it is a key of the engine's typeMap, or a
\* declared type that contains one of the substrings normalizeSQLiteType tests for
SQLiteTypeKeywords ==
    {"INT", "CHAR", "TEXT", "CLOB", "REAL", "FLOA", "DOUB", "BLOB", "NUMERIC", "DECIMAL",
     "BOOL", "DATE", "TIME"}

RecognizedType(kind, native) ==
    CASE kind = "mysql" -> native.t = "number" /\ native.v \in DOMAIN mysqlTypeMap
      [] kind = "postgresql" -> native.t = "number" /\ native.v \in DOMAIN postgresqlTypeMap
      [] OTHER -> \E keyword \in SQLiteTypeKeywords : includes(toUpperCase(native.v), keyword)

\* C12: each engine's type mapping returns one category for every native type without
\* throwing, and a type the mapping does not recognize resolves to "unknown".
C12_TypeMappingTotalUnknown ==
    last.op = "mapType" =>
        /\ last.outcome.status = "returned"
        /\ ~RecognizedType(adapters[last.adapter].kind, last.args[1])
               => last.outcome.value = "unknown"

-----------------------------------------------------------------------------
(* Properties of query's statement timeout, checked under SpecQuery.       *)

\* the timeout the documentation promises for a requested one
EnforcedTimeout(timeout) ==
    IF timeout.t = "undefined" \/ timeout.v <= 0 THEN 30000
    ELSE IF timeout.v > 300000 THEN 300000
    ELSE timeout.v

\* the statements that set a statement-level timeout of ms milliseconds on an engine
TimeoutStatements(ms) ==
    {"SET SESSION MAX_EXECUTION_TIME=" \o ToString(ms), "SET statement_timeout = " \o ToString(ms)}

\* the places in the requests of the last call where the caller's statement is sent
StatementSentAt == {i \in 1..Len(last.requests) : last.requests[i].sql = last.args[1].query}

\* C13: in every query call that runs the caller's statement, a statement-level timeout
\* was set on the engine before it: the requested timeout, the 30000 ms default when
\* none or a non-positive one is given, and at most 300000 ms.
C13_TimeoutSetBeforeStatement ==
    (last.op = "query" /\ StatementSentAt # {}) =>
        \E j \in 1..(SetMin(StatementSentAt) - 1) :
            last.requests[j].sql \in TimeoutStatements(EnforcedTimeout(last.args[1].options.timeout))

ForeignKeysReturned == last.op = "introspectForeignKeys" /\ LastReturned

DeliveredRows == last.args[2]

\* the delivered rows are the rows of one table in some order: no constraint or index
\* has two rows for one ordinal position
ForeignKeyRowsOfOneTable ==
    \A i, j \in 1..Len(DeliveredRows) :
        (DeliveredRows[i].constraint = DeliveredRows[j].constraint
            /\ DeliveredRows[i].ordinal = DeliveredRows[j].ordinal) => i = j

IndexRowsOfOneTable ==
    \A i, j \in 1..Len(DeliveredRows) :
        (DeliveredRows[i].index = DeliveredRows[j].index
            /\ DeliveredRows[i].ordinal = DeliveredRows[j].ordinal) => i = j

\* the delivered rows put in ordinal order
InOrdinalOrder(rows) == SortSeq(rows, LAMBDA r1, r2 : r1.ordinal < r2.ordinal)

Elements(xs) == {xs[k] : k \in 1..Len(xs)}

\* C15: for the foreign-key rows and the index rows of one table delivered in any
\* order, the grouping yields the same foreign keys and indexes, each with the same
\* column sequence, as for the rows delivered in ordinal order.
C15_GroupingToleratesRowOrder ==
    /\ (ForeignKeysReturned /\ ForeignKeyRowsOfOneTable) =>
           Elements(last.outcome.value)
               = Elements(introspectForeignKeys(adapters[last.adapter], handles, last.args[1],
                                                InOrdinalOrder(DeliveredRows)).outcome.value)
    /\ (last.op = "introspectIndexes" /\ LastReturned /\ IndexRowsOfOneTable) =>
           Elements(last.outcome.value)
               = Elements(groupIndexes(InOrdinalOrder(DeliveredRows), 1, <<>>))

\* C16: in every TableSchema of every snapshot that introspect returns, the primaryKey,
\* when present, lists only names of that table's columns.
C16_PrimaryKeyWithinColumns ==
    (last.op = "introspect" /\ LastReturned) =>
        \A t \in 1..Len(last.outcome.value.tables) :
            LET table == last.outcome.value.tables[t]
            IN  table.primaryKey.t # "undefined" =>
                    Elements(table.primaryKey.columns) \subseteq Elements(table.columns)

-----------------------------------------------------------------------------
(* Properties of explain's plan and recommendations, checked under SpecPlan. *)

ExplainReturned == last.op = "explain" /\ LastReturned

\* the report of the engine that the last explain call worked on
LastReport ==
    EngineReport(adapters[last.adapter].kind, qInput.plan, qInput.analyze, qInput.accuracy,
                 qInput.legacy)

\* the nodes of a reported plan tree in pre-order: the node, then the nodes below it,
\* child by child in the engine's order
RECURSIVE PreOrder(_)
PreOrder(node) ==
    <<node>> \o Concatenation(
        [k \in 1..Len(IF "Plans" \in DOMAIN node THEN node.Plans ELSE node.values) |->
            PreOrder((IF "Plans" \in DOMAIN node THEN node.Plans ELSE node.values)[k])], 1)

\* the findings for each node of the reported plan alone, in pre-order
FindingsInPreOrder(kind, report) ==
    LET nodes == PreOrder(report)
    IN  Concatenation([k \in 1..Len(nodes) |->
                          IF kind = "mysql" THEN MySQLFindings(nodes[k])
                          ELSE PostgreSQLFindings(nodes[k])], 1)

\* the adapter walked the tree that the engine reported: PostgreSQL's plan, or
\* MySQL's query_block (which EXPLAIN ANALYZE, answering in text, does not give)
TreeWalked ==
    \/ adapters[last.adapter].kind = "postgresql"
    \/ adapters[last.adapter].kind = "mysql" /\ Falsy(last.args[2])

\* C17: the recommendations of a plan are the findings of its nodes in pre-order, a
\* node's before those of its children and the children in the engine's order, and
\* nothing is deduplicated: a pattern that occurs in k nodes yields k findings.
C17_RecommendationsInPreOrder ==
    (ExplainReturned /\ TreeWalked) =>
        last.outcome.value.recommendations
            = FindingsInPreOrder(adapters[last.adapter].kind, LastReport)

\* a plan with two large sequential scans under a join yields the join's finding and
\* then the same finding twice
C17_Witness ==
    /\ ExplainReturned
    /\ adapters[last.adapter].kind = "postgresql"
    /\ Len(last.outcome.value.recommendations) = 3
    /\ last.outcome.value.recommendations[2] = last.outcome.value.recommendations[3]


\* a node of the reported plan whose actual row count is at least ten times, or at
\* most a tenth of, its estimate
Diverges(node) ==
    /\ "actualRows" \in DOMAIN node
    /\ node.actualRows.t = "number"
    /\ \/ node.actualRows.v >= 10 * node.planRows
       \/ node.planRows >= 10 * node.actualRows.v

ReportDiverges ==
    /\ adapters[last.adapter].kind = "postgresql"
    /\ \E k \in 1..Len(PreOrder(LastReport)) : Diverges(PreOrder(LastReport)[k])

\* C18: when explain ran with analyze and a node's actual row count diverges largely
\* from its estimate, the recommendations contain a finding that the statistics are
\* stale and that ANALYZE should be run.
C18_StaleStatisticsFound ==
    (ExplainReturned /\ ~Falsy(last.args[2]) /\ ReportDiverges) =>
        \E k \in 1..Len(last.outcome.value.recommendations) :
            \/ includes(last.outcome.value.recommendations[k], "ANALYZE")
            \/ includes(last.outcome.value.recommendations[k], "statistics")

\* the canonical node is the translation of the operation: its relation is the
\* operation's table and its children the translations of the operation's inputs, in
\* their order
RECURSIVE Translates(_, _)
Translates(operation, node) ==
    /\ node.relationName
           = (IF operation.table = "" THEN JsUndefined ELSE JsString(operation.table))
    /\ node.planRows = operation.rows
    /\ Len(node.children) = Len(operation.inputs)
    /\ \A k \in 1..Len(operation.inputs) : Translates(operation.inputs[k], node.children[k])

\* C19: explain of every adapter returns the engine's plan as the canonical node
\* tree: one node for each operation of the plan, each node's children in the order
\* in which the engine reports them.
C19_PlanTranslatedToNodeTree ==
    ExplainReturned =>
        /\ Len(last.outcome.value.nodes) = 1
        /\ Translates(qInput.plan, last.outcome.value.nodes[1])

-----------------------------------------------------------------------------
(* Properties of connect_database, checked under SpecSwitch.               *)

\* the adapters the server created that are connected: the flag is set and the pool
\* or database handle is there and open
ConnectedAdapters ==
    {a \in DOMAIN adapters : adapters[a].connected /\ Usable(adapters[a], handles)}

\* C20: the server holds one adapter at a time and disconnects it before it connects
\* its replacement, however connect_database requests follow or overlap each other:
\* no two adapters that the server created are connected at once, and a connected
\* adapter is the one the server references.
C20_OneConnectedAdapter ==
    /\ Cardinality(ConnectedAdapters) <= 1
    /\ \A a \in ConnectedAdapters : a = client

-----------------------------------------------------------------------------
(* Properties of validate's analysis of SELECT statements, checked under    *)
(* SpecAnalysis.                                                            *)

Analysed == vOutcome.status = "returned" /\ qInput.request = "validate"

\* the score as documented: 2 for each JOIN, 3 for each subquery, 2 for each UNION,
\* 1 for a GROUP BY, 1 for an ORDER BY, 3 for window functions
DocumentedScore(shape) ==
    2 * shape.joins + 3 * shape.subqueries + 2 * shape.unions
    + (IF shape.groupBy THEN 1 ELSE 0) + (IF shape.orderColumns > 0 THEN 1 ELSE 0)
    + (IF shape.window THEN 3 ELSE 0)

DocumentedTier(score) ==
    IF score <= 2 THEN "low" ELSE IF score <= 6 THEN "medium" ELSE "high"

\* C21: estimatedComplexity is the tier of the documented score: 2 per JOIN, 3 per
\* subquery, 2 per UNION, 1 if GROUP BY is present, 1 if ORDER BY is present, 3 if
\* window functions are present; low up to 2, medium from 3 to 6, high from 7.
C21_ComplexityAsDocumented ==
    Analysed =>
        vOutcome.value.metadata.estimatedComplexity
            = DocumentedTier(DocumentedScore(qInput.shape))


HasWarning(code) ==
    \E k \in 1..Len(vOutcome.value.warnings) : vOutcome.value.warnings[k].code = code

\* C23: validate warns of a cartesian product exactly when the FROM clause lists two
\* or more tables separated by commas and the statement has no JOIN; a statement
\* whose FROM clause names one table is never warned, whatever follows the clause.
C23_CartesianProductWarning ==
    Analysed =>
        (HasWarning("CARTESIAN_PRODUCT") <=> (qInput.shape.tables >= 2 /\ qInput.shape.joins = 0))


\* the operations of a plan, the plan's own first
RECURSIVE Operations(_)
Operations(operation) ==
    {operation} \cup UNION {Operations(operation.inputs[k]) : k \in 1..Len(operation.inputs)}

\* the plan sorts a table it reads, with a filesort alone or through a temporary table
SortsScannedTable(plan, sorts) ==
    \E operation \in Operations(plan) :
        operation.op \in sorts /\ operation.inputs[1].op \in {"scan", "search"}

Recommends(word) ==
    \E k \in 1..Len(last.outcome.value.recommendations) :
        includes(last.outcome.value.recommendations[k], word)

MySQLPlanRead ==
    ExplainReturned /\ adapters[last.adapter].kind = "mysql" /\ Falsy(last.args[2])

\* C22: for a MySQL EXPLAIN FORMAT=JSON plan whose query block holds an ordering
\* operation with a filesort, or one through a temporary table, around the table it
\* reads, explain's recommendations hold a finding for it.
C22_SortAndTemporaryTableFound ==
    MySQLPlanRead =>
        /\ SortsScannedTable(qInput.plan, {"sort", "tempsort"}) => Recommends("filesort")
        /\ SortsScannedTable(qInput.plan, {"tempsort"}) => Recommends("temporary table")

-----------------------------------------------------------------------------
(* Properties of query's use of the pool, checked under SpecPool.          *)

QueriesInFlight == {t \in DOMAIN tasks : tasks[t].op = "query"}

\* how often the returned call took and gave back the connection
EventCount(log, event, c) ==
    Cardinality({k \in 1..Len(log) : log[k] = PoolEvent(event, c)})

\* the query calls that have a connection checked out, their own or their explain's
HoldersOf(c) ==
    {t \in QueriesInFlight :
        \/ tasks[t].conn = c
        \/ tasks[t].phase = "explained" /\ tasks[t].other = c}

\* C24: every connection that query takes from the pool is released once, on the
\* success path and on every failure path (the timeout statement fails, the statement
\* fails, the embedded explain fails); a connection that is checked out belongs to a
\* call in flight, so that none is left checked out when all calls have returned.
C24_ConnectionsReleasedOnce ==
    /\ last.op = "query" =>
           \A c \in DOMAIN connections :
               /\ EventCount(last.requests, "release", c) = EventCount(last.requests, "acquire", c)
               /\ EventCount(last.requests, "release", c) <= 1
    /\ \A c \in DOMAIN connections : connections[c].held => HoldersOf(c) # {}

\* a call whose embedded explain failed has returned and no connection is checked out
C24_Witness ==
    /\ last.op = "query"
    /\ last.outcome.status = "threw"
    /\ includes(last.outcome.message, "EXPLAIN failed")
    /\ Len(last.requests) = 2
    /\ QueriesInFlight = {}
    /\ \A c \in DOMAIN connections : ~connections[c].held

\* every call in flight waits for the pool, and every connection is checked out by
\* one of them: none of the calls can go on, so none will give its connection back
AllCallsWaitForThePool ==
    /\ QueriesInFlight # {}
    /\ FreeConnections = {}
    /\ \A t \in QueriesInFlight : tasks[t].phase \in {"acquiring", "explaining"}

\* C25: with an engine that answers every request, every query call with
\* options.explain returns, for any pool size and any number of calls in flight: the
\* calls never all wait for connections that they hold themselves.
C25_NoCallWaitsForever == ~AllCallsWaitForThePool

\* C26: a timeout given to one query call applies to that call only: a statement of
\* a later operation on the same connection (a query without a timeout option, an
\* explain) does not run under the value the earlier call was given.
C26_TimeoutOfOneCallOnly ==
    \A t \in QueriesInFlight :
        /\ (tasks[t].phase = "running" /\ tasks[t].request.options.timeout.t = "undefined")
               => ~connections[tasks[t].conn].given
        /\ tasks[t].phase = "explained" => ~connections[tasks[t].other].given

-----------------------------------------------------------------------------
(* Properties of the adapters' data operations while not connected, checked *)
(* under SpecAdapter.                                                       *)

DataOperations == {"query", "introspect", "explain", "getTableStatistics"}

\* C27: on every adapter a data operation (query, introspect, explain,
\* getTableStatistics) called while isConnected() is false, before the first
\* connect() or after disconnect(), fails with the error 'Database client is not
\* connected' and sends nothing to the engine.
C27_NotConnectedRefused ==
    (last.op \in DataOperations /\ ~last.before.connected) =>
        /\ last.outcome.status = "threw"
        /\ includes(last.outcome.message, "Database client is not connected")
        /\ last.requests = <<>>

-----------------------------------------------------------------------------
(* Properties of a failed connect_database, checked under SpecServer.      *)

\* C28: when a connect_database request returns an error, the server is left with
\* no connected adapter, so that the tools that need a connection answer 'Not
\* connected to database' until a connect_database request succeeds.
C28_FailedConnectLeavesNoAdapter ==
    (last.op = "connect_database" /\ last.outcome.status = "threw") =>
        ~last.after.connected

-----------------------------------------------------------------------------
(* Properties of query with options.explain and options.analyze, checked   *)
(* under SpecQuery.                                                         *)

\* the requests of the last call that make the engine run the text
RunsOf(text) == {k \in DOMAIN last.requests : RunsStatement(last.requests[k].sql, text)}

\* C29: one query call makes the engine run the caller's statement at most once,
\* whatever its options: with options.explain and options.analyze both set the
\* statement is not run a second time for the plan.
C29_StatementRunOnce ==
    last.op = "query" => Cardinality(RunsOf(last.args[1].query)) <= 1

-----------------------------------------------------------------------------
(* Properties of the pools and database handles an adapter creates,        *)
(* checked under SpecAdapter.                                               *)

\* C30: after any interleaving of connect() and disconnect() calls on an adapter,
\* every pool or database handle the adapter created is either the one the adapter
\* references or has been closed.
C30_OneLiveHandle ==
    \A h \in HandleIds :
        handles[h].state = "open" => adapters[handles[h].owner].handle = h

=============================================================================
